---- MODULE Spec2Model ----
(***************************************************************************)
(* A model of s3_listobjectversions_to_csv.py: S3VersionsExporter, its     *)
(* export_versions loop (the orchestrator, running on the main thread),    *)
(* process_batch, the csv_writer_worker thread, the checkpoint file        *)
(* (_save_resume_state, _load_resume_state, _cleanup_resume_state) and the *)
(* process being started again on the same files.                          *)
(*                                                                         *)
(* Spec is the whole program with its environment's faults; SpecRetry is   *)
(* one run in which only fetches fail, with fair scheduling; SpecCkpt is   *)
(* a checkpoint saved and loaded on its own; SpecStart is one start of the *)
(* process on every kind of parameters and files it can find; SpecPipe is  *)
(* one long page going through the queue and the writer thread; SpecLock   *)
(* is the two threads with their counter updates taken apart into acquire, *)
(* load, store and release; SpecSave is one run in which writes of the     *)
(* checkpoint file fail; SpecOpen is one run in which the writer thread    *)
(* fails before its loop; SpecIdent is one run over keys and version ids   *)
(* that hold the character the dedup identity is joined with; SpecFetch is *)
(* SpecRetry with exceptions that have no message.                         *)
(*                                                                         *)
(* Strings are sequences of one-character strings, so that the f-string    *)
(* f"{key}-{version}" and urllib.parse.quote_plus are computed as the code *)
(* computes them.  Times are whole seconds.                                *)
(***************************************************************************)
EXTENDS Integers, Sequences, FiniteSets, Bags, TLC

(***************************************************************************)
(* Bounds of the model.                                                    *)
(***************************************************************************)
\* process starts (sessions) in one behaviour
MaxSessions == 2
\* faults of the environment in one behaviour of Spec: failing
\* list_object_versions calls, KeyboardInterrupts, failing writes of the
\* writer thread and long pauses, taken together
MaxFaults == 2
\* failing list_object_versions calls in one behaviour of SpecRetry
MaxRetryFaults == 4

(***************************************************************************)
(* Program constants.  The sizes are the source's, scaled down so that the *)
(* model reaches them; the source's value is given with each.              *)
(***************************************************************************)
\* Queue(maxsize=10)
QueueMaxSize == 2
\* len(current_batch) < 2000
CurrentBatchLimit == 2
\* len(sort_buffer) >= 4000
SortBufferThreshold == 3
\* save_state_interval = 20
save_state_interval == 2
\* current_count >= 200000
TrimHighWatermark == 3
\* [-10000:]
TrimLowWatermark == 2
\* _refresh_credentials_and_retry(max_retries=3)
max_retries == 3
\* abs(current_mtime - state['csv_mtime']) > 10
MtimeTolerance == 10
\* timedelta(hours=24), in seconds
MaxCheckpointAge == 86400

(***************************************************************************)
(* Values.                                                                 *)
(***************************************************************************)
\* Python's None; no string of the model equals it
None == <<"None">>

\* an absent number (a None where the code otherwise holds a float)
NoTime == <<>>

\* bool(x) of a str-or-None value: None and "" are falsy
Truthy(x) == x # None /\ x # <<>>

\* the difference taken with its sign, where the code takes abs()
Signed(x) == x

Abs(x) == IF x >= 0 THEN x ELSE 0 - x

\* code points of the characters the model's strings are made of
Ord(c) ==
    CASE c = " " -> 32
      [] c = "%" -> 37
      [] c = "+" -> 43
      [] c = "-" -> 45
      [] c = "/" -> 47
      [] c = "0" -> 48
      [] c = "1" -> 49
      [] c = "2" -> 50
      [] c = "B" -> 66
      [] c = "a" -> 97
      [] c = "b" -> 98
      [] c = "c" -> 99
      [] c = "d" -> 100
      [] OTHER -> 127

\* s < t for Python strings: lexicographic by code point
RECURSIVE StrLess(_, _)
StrLess(s, t) ==
    IF t = <<>> THEN FALSE
    ELSE IF s = <<>> THEN TRUE
    ELSE IF Ord(Head(s)) # Ord(Head(t)) THEN Ord(Head(s)) < Ord(Head(t))
    ELSE StrLess(Tail(s), Tail(t))

\* urllib.parse.quote_plus(c, safe='/') of one character
QuoteChar(c) ==
    CASE c = " " -> <<"+">>
      [] c = "+" -> <<"%", "2", "B">>
      [] c = "%" -> <<"%", "2", "5">>
      [] OTHER   -> <<c>>

RECURSIVE quote_plus(_)
quote_plus(s) ==
    IF s = <<>> THEN <<>> ELSE QuoteChar(Head(s)) \o quote_plus(Tail(s))

\* f"{key}-{version_id}"
KeyVersion(key, version_id) == key \o <<"-">> \o version_id

(***************************************************************************)
(* The bucket: what list_object_versions returns, page by page.  A page    *)
(* holds its version entries and its delete-marker entries in two lists,   *)
(* as the response does.                                                   *)
(***************************************************************************)
Entry(k, v) == [Key |-> k, VersionId |-> v]

ListingA ==
    << [Versions            |-> << Entry(<<"c">>, <<"1">>) >>,
        DeleteMarkers       |-> << Entry(<<"b">>, <<"2">>) >>,
        IsTruncated         |-> TRUE,
        NextKeyMarker       |-> <<"c">>,
        NextVersionIdMarker |-> <<"1">>],
       [Versions            |-> << Entry(<<"d">>, <<"1">>) >>,
        DeleteMarkers       |-> << >>,
        IsTruncated         |-> TRUE,
        NextKeyMarker       |-> <<"d">>,
        NextVersionIdMarker |-> <<"1">>],
       [Versions            |-> << Entry(<<"d", " ", "a">>, <<"1">>) >>,
        DeleteMarkers       |-> << >>,
        IsTruncated         |-> FALSE,
        NextKeyMarker       |-> None,
        NextVersionIdMarker |-> None] >>

ListingB ==
    << [Versions            |-> << Entry(<<"a", " ">>, <<"1">>) >>,
        DeleteMarkers       |-> << Entry(<<"a", "+">>, <<"1">>) >>,
        IsTruncated         |-> FALSE,
        NextKeyMarker       |-> None,
        NextVersionIdMarker |-> None] >>

Listings == {ListingA, ListingB}

\* s3_client.list_object_versions(**params): the page that follows the
\* markers (the first page when no KeyMarker is passed)
list_object_versions(L, params) ==
    IF ~params.hasKeyMarker THEN L[1]
    ELSE LET after == {i \in 1..(Len(L) - 1) :
                          /\ L[i].NextKeyMarker = params.KeyMarker
                          /\ \/ ~params.hasVersionIdMarker
                             \/ L[i].NextVersionIdMarker = params.VersionIdMarker}
         IN  IF after = {} THEN L[Len(L)]
             ELSE L[(CHOOSE i \in after : \A j \in after : i <= j) + 1]

\* the params process_batch builds from its markers (lines 434-444)
Params(key_marker, version_marker) ==
    [hasKeyMarker       |-> Truthy(key_marker),
     KeyMarker          |-> key_marker,
     hasVersionIdMarker |-> Truthy(version_marker),
     VersionIdMarker    |-> version_marker]

\* the entries of a response in the order process_batch walks them
RECURSIVE Tag(_, _)
Tag(entries, dm) ==
    IF entries = <<>> THEN <<>>
    ELSE << [Key |-> Head(entries).Key, VersionId |-> Head(entries).VersionId,
             delete_marker |-> dm] >> \o Tag(Tail(entries), dm)

ResponseEntries(response) ==
    Tag(response.Versions, FALSE) \o Tag(response.DeleteMarkers, TRUE)

\* the row process_batch builds for an entry (lines 466-485, 506-525)
Row(entry, url_encode) ==
    [key_name      |-> IF url_encode THEN quote_plus(entry.Key) ELSE entry.Key,
     version_id    |-> entry.VersionId,
     delete_marker |-> entry.delete_marker]

(***************************************************************************)
(* Job parameters.                                                         *)
(***************************************************************************)
BucketName == <<"b", "k", "t">>

\* _validate_bucket_name: ^[a-z0-9.-]{3,63}$, no leading or trailing dot,
\* no two dots in a row
BucketChars == {"a", "b", "c", "d", "k", "t", "0", "1", "2", ".", "-"}

_validate_bucket_name(bucket_name) ==
    /\ Len(bucket_name) >= 3
    /\ Len(bucket_name) <= 63
    /\ \A i \in 1..Len(bucket_name) : bucket_name[i] \in BucketChars
    /\ bucket_name[1] # "."
    /\ bucket_name[Len(bucket_name)] # "."
    /\ \A i \in 1..(Len(bucket_name) - 1) :
          ~(bucket_name[i] = "." /\ bucket_name[i + 1] = ".")

\* paths are sequences of components; os.getcwd() is /w
CurrentDir == << <<"w">> >>

\* the output path `out`
OutputFile == << <<"o", "u", "t">> >>

\* the parameters of a run: export_versions' arguments
Configs ==
    [bucket_name   : {BucketName},
     prefix        : {None},
     output_file   : {OutputFile},
     enable_resume : BOOLEAN,
     write_headers : {TRUE},
     url_encode    : {TRUE},
     profile_name  : {<<"p">>}]

(***************************************************************************)
(* State.                                                                  *)
(***************************************************************************)
VARIABLES
    \* ---- the run's inputs, fixed through a behaviour
    cfg,                 \* export_versions' arguments
    listing,             \* the bucket's content
    \* ---- what outlives the process
    now,                 \* the clock, in seconds
    csv,                 \* the output file: [exists, rows, mtime]
    ckpt,                \* the checkpoint file: <<>> (no file) or <<text>>
    \* ---- S3VersionsExporter's attributes
    total_processed,
    error_count,
    write_queue,
    stop_writer,
    processed_keys,
    resume_state_file,
    current_batch_num,
    \* ---- export_versions' locals (the main thread)
    pc,
    resume_state,
    append_mode,
    next_key_marker,
    next_version_marker,
    batch_num,
    total_items,
    result,
    \* ---- process_batch's locals
    entries,             \* the entries of the response not yet walked
    batch_count,
    \* ---- csv_writer_worker's locals (the writer thread)
    wpc,
    current_batch,
    sort_buffer,
    \* ---- self.lock and the counter updates made under it
    lock,                \* the thread that holds self.lock, or "free"
    main_loaded,         \* the value the main thread read for its +=
    writer_counting,     \* the += the writer thread is making
    \* ---- how the process ended
    raised,              \* the exception export_versions is leaving with
    exit_status,
    \* ---- the environment's counters and the history the properties read
    session,             \* the number of the running process, from 1
    fault_limit,         \* the faults the environment may cause in all
    save_failures,       \* the checkpoint writes that failed
    fetch_errors,
    interrupts,
    write_failures,
    pauses,
    hist

inputVars  == <<cfg, listing>>
diskVars   == <<csv, ckpt>>
selfVars   == <<total_processed, error_count, write_queue, stop_writer,
                processed_keys, resume_state_file, current_batch_num>>
localVars  == <<pc, resume_state, append_mode, next_key_marker,
                next_version_marker, batch_num, total_items, result>>
batchVars  == <<entries, batch_count>>
writerVars == <<wpc, current_batch, sort_buffer>>
lockVars   == <<lock, main_loaded, writer_counting>>
envVars    == <<session, fault_limit, save_failures, fetch_errors, interrupts,
                write_failures, pauses>>

vars == <<cfg, listing, now, csv, ckpt, total_processed, error_count,
          write_queue, stop_writer, processed_keys, resume_state_file,
          current_batch_num, pc, resume_state, append_mode, next_key_marker,
          next_version_marker, batch_num, total_items, result, entries,
          batch_count, wpc, current_batch, sort_buffer, lock, main_loaded,
          writer_counting, raised, exit_status, session, fault_limit,
          save_failures, fetch_errors, interrupts, write_failures, pauses, hist>>

(***************************************************************************)
(* The checkpoint file.                                                    *)
(***************************************************************************)
JsonNull == <<"n", "u", "l", "l">>

\* json.dump / json.load of a str-or-None value
json_dump_str(x) == IF x = None THEN JsonNull ELSE <<"\"">> \o x \o <<"\"">>

\* the text handed back as it is in the file, where json.load decodes it
json_load_raw(t) == t

json_load_str(t) == IF t = JsonNull THEN None ELSE SubSeq(t, 2, Len(t) - 1)

\* list(a_set): some enumeration of the set
RECURSIVE SetToList(_)
SetToList(S) ==
    IF S = {} THEN <<>>
    ELSE LET x == CHOOSE y \in S : TRUE IN <<x>> \o SetToList(S \ {x})

\* set(a_list)
ListToSet(l) == {l[i] : i \in 1..Len(l)}

\* the path _generate_resume_state_filename derives from the job parameters
CheckpointPath == <<"c", "k", "p", "t">>

\* os.path.getmtime(output_file) if os.path.exists(output_file) else None
CsvMtime(file) == IF file.exists THEN <<file.mtime>> ELSE NoTime

\* the text _save_resume_state writes (lines 183-200)
StateText(bucket_name, prefix, key_marker, version_marker, bnum, items, clock, file, keys) ==
    [bucket_name         |-> json_dump_str(bucket_name),
     prefix              |-> json_dump_str(prefix),
     next_key_marker     |-> json_dump_str(key_marker),
     next_version_marker |-> json_dump_str(version_marker),
     batch_num           |-> bnum,
     total_items         |-> items,
     timestamp           |-> clock,
     csv_mtime           |-> CsvMtime(file),
     processed_keys      |-> SetToList(keys)]

\* the checkpoint file after _save_resume_state
_save_resume_state(bucket_name, prefix, key_marker, version_marker, bnum, items) ==
    IF resume_state_file = None THEN ckpt
    ELSE << StateText(bucket_name, prefix, key_marker, version_marker, bnum,
                      items, now, csv, processed_keys) >>

\* json.load of the checkpoint's text
json_load(text) ==
    [kind                |-> "state",
     bucket_name         |-> json_load_str(text.bucket_name),
     prefix              |-> json_load_str(text.prefix),
     next_key_marker     |-> json_load_str(text.next_key_marker),
     next_version_marker |-> json_load_str(text.next_version_marker),
     batch_num           |-> text.batch_num,
     total_items         |-> text.total_items,
     timestamp           |-> text.timestamp,
     csv_mtime           |-> text.csv_mtime,
     processed_keys      |-> text.processed_keys]

\* resume_state = {}
EmptyState == [kind |-> "empty"]

\* the text of a checkpoint file whose write broke off: not a JSON document
PartialText == [broken |-> TRUE]

ErrorState(msg) == [kind |-> "error", error |-> msg]

\* _load_resume_state: what it returns (ret) and what it leaves in
\* self.processed_keys (keys)
_load_resume_state(bucket_name, prefix) ==
    IF resume_state_file = None \/ ckpt = <<>>
    THEN [ret |-> ErrorState("checkpoint file does not exist"), keys |-> processed_keys]
    ELSE IF ckpt[1] = PartialText
    THEN [ret |-> ErrorState("corrupted checkpoint file"), keys |-> processed_keys]
    ELSE LET state == json_load(ckpt[1]) IN
         IF state.bucket_name # bucket_name
         THEN [ret |-> ErrorState("bucket mismatch"), keys |-> processed_keys]
         ELSE IF state.prefix # prefix
         THEN [ret |-> ErrorState("prefix mismatch"), keys |-> processed_keys]
         ELSE IF now - state.timestamp > MaxCheckpointAge
         THEN [ret |-> ErrorState("checkpoint is more than 24 hours old"),
               keys |-> processed_keys]
         ELSE IF /\ state.csv_mtime # NoTime
                 /\ state.csv_mtime[1] # 0
                 /\ csv.exists
                 /\ Abs(csv.mtime - state.csv_mtime[1]) > MtimeTolerance
         THEN [ret |-> ErrorState("CSV file was modified externally since last checkpoint"),
               keys |-> ListToSet(state.processed_keys)]
         ELSE [ret |-> state, keys |-> ListToSet(state.processed_keys)]

\* a clean-up that leaves the checkpoint file where it is
KeepCheckpoint == ckpt

\* the checkpoint file after _cleanup_resume_state
_cleanup_resume_state == IF resume_state_file # None THEN <<>> ELSE ckpt

\* _check_existing_csv_for_resume: csv.DictReader takes the file's first line
\* as the field names; the keys it adds to self.processed_keys
Header == [key_name |-> <<"key_name">>, version_id |-> <<"version_id">>,
           delete_marker |-> FALSE]

ScannedKey(fieldnames, row) ==
    IF fieldnames = Header THEN KeyVersion(row.key_name, row.version_id)
    ELSE KeyVersion(<<>>, <<>>)

_check_existing_csv_for_resume(file) ==
    IF ~file.exists \/ file.rows = <<>> THEN {}
    ELSE {ScannedKey(file.rows[1], file.rows[i]) : i \in 2..Len(file.rows)}

(***************************************************************************)
(* The initial state: the first process start, no output file and no       *)
(* checkpoint file.                                                        *)
(***************************************************************************)
StartTime == 100000

NoCsv == [exists |-> FALSE, rows |-> <<>>, mtime |-> 0]

NoResult ==
    [batch_count |-> 0, is_truncated |-> FALSE, next_key_marker |-> None,
     next_version_marker |-> None, error |-> "None", retry_after_refresh |-> FALSE]

\* the exit status of a process that has not exited
Running == -1

\* the writer thread is making no +=
NotCounting == [counter |-> "none", amount |-> 0, loaded |-> 0, then |-> "none"]

\* the attributes __init__ sets and the locals before export_versions runs
ProcessInit ==
    /\ lock = "free"
    /\ main_loaded = 0
    /\ writer_counting = NotCounting
    /\ total_processed = 0
    /\ error_count = 0
    /\ write_queue = <<>>
    /\ stop_writer = FALSE
    /\ processed_keys = {}
    /\ resume_state_file = None
    /\ current_batch_num = 0
    /\ pc = "validate"
    /\ resume_state = EmptyState
    /\ append_mode = FALSE
    /\ next_key_marker = None
    /\ next_version_marker = None
    /\ batch_num = 0
    /\ total_items = 0
    /\ result = NoResult
    /\ entries = <<>>
    /\ batch_count = 0
    /\ wpc = "unstarted"
    /\ current_batch = <<>>
    /\ sort_buffer = <<>>
    /\ raised = "None"
    /\ exit_status = Running

\* the history of a process that has just started
HistInit(ends) ==
    [ends         |-> ends,     \* how the earlier processes ended
     attempts     |-> 0,        \* fetches made with the current cursor
     fetched      |-> <<>>,     \* the cursor of the last fetch
     retry_of     |-> <<>>,     \* the cursor of the failed fetch being retried
     retried      |-> {},       \* the cursors fetched again after a refresh
     pushed       |-> <<>>,     \* the rows put on the queue
     base         |-> 0,        \* the lines of the file when the writer opened it
     page         |-> 0,        \* the number of the page the cursor fetches
     calls        |-> 0,        \* the calls of list_object_versions
     conflict     |-> None,     \* the answer to "Overwrite? (y/n): ", if asked
     write_failed |-> FALSE]    \* a write of the writer thread failed

Init ==
    /\ cfg \in Configs
    /\ listing \in Listings
    /\ now = StartTime
    /\ csv = NoCsv
    /\ ckpt = <<>>
    /\ ProcessInit
    /\ session = 1
    /\ fault_limit = MaxFaults
    /\ fetch_errors = 0
    /\ interrupts = 0
    /\ write_failures = 0
    /\ save_failures = 0
    /\ pauses = 0
    /\ hist = HistInit(<<>>)

\* the environment may cause one more fault
MayFail ==
    fetch_errors + interrupts + write_failures + pauses + save_failures < fault_limit

(***************************************************************************)
(* export_versions, up to its loop.                                        *)
(***************************************************************************)
\* os.path.normpath of a path of components: `..` drops the component
\* before it
RECURSIVE normpath(_, _)
normpath(done, rest) ==
    IF rest = <<>> THEN done
    ELSE IF Head(rest) = <<".", ".">>
    THEN normpath(SubSeq(done, 1, Len(done) - 1), Tail(rest))
    ELSE normpath(Append(done, Head(rest)), Tail(rest))

\* os.path.abspath of a relative path
abspath(file_path) == normpath(CurrentDir, file_path)

\* the path as a string
RECURSIVE PathString(_)
PathString(components) ==
    IF components = <<>> THEN <<>>
    ELSE <<"/">> \o Head(components) \o PathString(Tail(components))

\* s.startswith(t)
startswith(s, t) == Len(t) <= Len(s) /\ SubSeq(s, 1, Len(t)) = t

\* a check that takes every path
AnyPath(file_path) == TRUE

\* _validate_file_path: the absolute path, as a string, starts with the
\* working directory
_validate_file_path(file_path) ==
    LET resolved_path == PathString(abspath(file_path))
        current_dir   == PathString(CurrentDir)
    IN  startswith(resolved_path, current_dir)

\* lines 637-645
Validate ==
    /\ pc = "validate"
    /\ IF /\ _validate_bucket_name(cfg.bucket_name)
          /\ _validate_file_path(cfg.output_file)
       THEN pc' = "resume_file" /\ UNCHANGED <<raised, exit_status>>
       ELSE pc' = "invalid" /\ raised' = "ValueError" /\ exit_status' = 1
    /\ UNCHANGED <<inputVars, lockVars, now, diskVars, selfVars, resume_state, append_mode,
                   next_key_marker, next_version_marker, batch_num, total_items,
                   result, batchVars, writerVars, envVars, hist>>

\* lines 664-666
ResumeFile ==
    /\ pc = "resume_file"
    /\ resume_state_file' = IF cfg.enable_resume THEN CheckpointPath ELSE None
    /\ pc' = IF cfg.enable_resume THEN "resume_load" ELSE "start_writer"
    /\ UNCHANGED <<inputVars, lockVars, now, diskVars, total_processed, error_count,
                   write_queue, stop_writer, processed_keys, current_batch_num,
                   resume_state, append_mode, next_key_marker,
                   next_version_marker, batch_num, total_items, result,
                   batchVars, writerVars, raised, exit_status, envVars, hist>>

\* lines 669-675: no output file, a stale checkpoint is removed
ResumeNoOutput ==
    /\ pc = "resume_load"
    /\ ~csv.exists
    /\ ckpt' = <<>>
    /\ pc' = "start_writer"
    /\ UNCHANGED <<inputVars, lockVars, now, csv, selfVars, resume_state, append_mode,
                   next_key_marker, next_version_marker, batch_num, total_items,
                   result, batchVars, writerVars, raised, exit_status, envVars,
                   hist>>

\* lines 677, 696-699: the checkpoint loads, the run appends
ResumeAccept ==
    /\ pc = "resume_load"
    /\ csv.exists
    /\ LET loaded == _load_resume_state(cfg.bucket_name, cfg.prefix) IN
       /\ loaded.ret.kind = "state"
       /\ resume_state' = loaded.ret
       /\ processed_keys' = loaded.keys \cup _check_existing_csv_for_resume(csv)
    /\ append_mode' = TRUE
    /\ pc' = "start_writer"
    /\ UNCHANGED <<inputVars, lockVars, now, diskVars, total_processed, error_count,
                   write_queue, stop_writer, resume_state_file,
                   current_batch_num, next_key_marker, next_version_marker,
                   batch_num, total_items, result, batchVars, writerVars,
                   raised, exit_status, envVars, hist>>

\* what the user types at "Overwrite? (y/n): "
Responses == { <<"y">>, <<"Y", "e", "s">>, <<"n">>, <<>> }

\* a prompt that takes every answer for a yes
AlwaysAffirmative(response) == TRUE

\* response.lower().startswith('y')
Affirmative(response) == response # <<>> /\ response[1] \in {"y", "Y"}

\* lines 677-694: the checkpoint does not load, the user is asked
ResumeConflict ==
    /\ pc = "resume_load"
    /\ csv.exists
    /\ LET loaded == _load_resume_state(cfg.bucket_name, cfg.prefix) IN
       /\ loaded.ret.kind = "error"
       /\ \E response \in Responses :
             /\ hist' = [hist EXCEPT !.conflict = response]
             /\ IF Affirmative(response)
                THEN /\ processed_keys' = {}
                     /\ pc' = "start_writer"
                     /\ UNCHANGED exit_status
                ELSE /\ processed_keys' = loaded.keys
                     /\ pc' = "cancelled"
                     /\ exit_status' = 0
    /\ resume_state' = EmptyState
    /\ UNCHANGED <<inputVars, lockVars, now, diskVars, total_processed, error_count,
                   write_queue, stop_writer, resume_state_file,
                   current_batch_num, append_mode, next_key_marker,
                   next_version_marker, batch_num, total_items, result,
                   batchVars, writerVars, raised, envVars>>

\* the number of the page a cursor fetches
PageOfCursor(L, key_marker, version_marker) ==
    CHOOSE n \in 1..Len(L) :
        L[n] = list_object_versions(L, Params(key_marker, version_marker))

\* lines 707-734: the writer thread is started, the counters and markers are
\* set from resume_state
StartWriter ==
    /\ pc = "start_writer"
    /\ wpc' = "open"
    /\ IF resume_state.kind = "state"
       THEN /\ next_key_marker' = resume_state.next_key_marker
            /\ next_version_marker' = resume_state.next_version_marker
            /\ batch_num' = resume_state.batch_num
            /\ total_items' = resume_state.total_items
            /\ current_batch_num' = resume_state.batch_num
       ELSE /\ next_key_marker' = None
            /\ next_version_marker' = None
            /\ batch_num' = 0
            /\ total_items' = 0
            /\ current_batch_num' = 0
    /\ hist' = [hist EXCEPT !.page =
                   PageOfCursor(listing, next_key_marker', next_version_marker')]
    /\ pc' = "loop_top"
    /\ UNCHANGED <<inputVars, lockVars, now, diskVars, total_processed, error_count,
                   write_queue, stop_writer, processed_keys, resume_state_file,
                   resume_state, append_mode, result, batchVars, current_batch,
                   sort_buffer, raised, exit_status, envVars>>

(***************************************************************************)
(* The loop of export_versions and process_batch.                          *)
(***************************************************************************)
\* lines 737-738
LoopTop ==
    /\ pc = "loop_top"
    /\ batch_num' = batch_num + 1
    /\ current_batch_num' = batch_num + 1
    /\ pc' = "fetch"
    /\ UNCHANGED <<inputVars, lockVars, now, diskVars, total_processed, error_count,
                   write_queue, stop_writer, processed_keys, resume_state_file,
                   resume_state, append_mode, next_key_marker,
                   next_version_marker, total_items, result, batchVars,
                   writerVars, raised, exit_status, envVars, hist>>

Cursor == <<next_key_marker, next_version_marker>>

\* the history after a fetch with the current cursor
Fetched ==
    [hist EXCEPT !.attempts = IF hist.fetched = <<Cursor>> THEN @ + 1 ELSE 1,
                 !.calls    = @ + 1,
                 !.fetched  = <<Cursor>>,
                 !.retried  = IF hist.retry_of # <<>> THEN @ \cup {Cursor} ELSE @,
                 !.retry_of = <<>>]

\* lines 434-447: list_object_versions answers
FetchPage ==
    /\ pc = "fetch"
    /\ entries' = ResponseEntries(list_object_versions(listing,
                      Params(next_key_marker, next_version_marker)))
    /\ batch_count' = 0
    /\ hist' = Fetched
    /\ pc' = "batch_loop"
    /\ UNCHANGED <<inputVars, lockVars, now, diskVars, selfVars, resume_state, append_mode,
                   next_key_marker, next_version_marker, batch_num, total_items,
                   result, writerVars, raised, exit_status, envVars>>

\* the error codes list_object_versions raises as a ClientError, and
\* "Exception" for any other exception
ErrorCodes == {"NoSuchBucket", "AccessDenied", "ExpiredToken", "InvalidToken",
               "TokenRefreshRequired", "InternalError", "Exception"}

\* lines 541-581: the result process_batch returns for an exception; of its
\* message only the truth value is read (line 750), the model keeps one text
ErrorResult(code) ==
    [batch_count         |-> 0,
     is_truncated        |-> FALSE,
     next_key_marker     |-> None,
     next_version_marker |-> None,
     error               |-> "error_msg",
     retry_after_refresh |-> code \in {"ExpiredToken", "InvalidToken",
                                       "TokenRefreshRequired"}]

\* a save of the markers of the last result, where the code saves the markers
\* the batch was fetched with
SaveResultMarkers(bnum) ==
    IF cfg.enable_resume
    THEN _save_resume_state(cfg.bucket_name, cfg.prefix, result.next_key_marker,
                            result.next_version_marker, bnum, total_items)
    ELSE ckpt

\* the results process_batch returns for the exceptions of ErrorCodes
ErrorResults == {ErrorResult(code) : code \in ErrorCodes}

\* the checkpoint file after _save_resume_state, when resume is enabled
SaveIfResume(bnum) ==
    IF cfg.enable_resume
    THEN _save_resume_state(cfg.bucket_name, cfg.prefix, next_key_marker,
                            next_version_marker, bnum, total_items)
    ELSE ckpt

\* lines 446, 541-581, 750-759: list_object_versions raises; process_batch
\* counts the error and returns its result, export_versions saves the state
FetchError ==
    /\ pc = "fetch"
    /\ MayFail
    /\ \E error_result \in ErrorResults :
          /\ result' = error_result
          /\ pc' = IF error_result.retry_after_refresh THEN "refresh" ELSE "fatal"
    /\ error_count' = error_count + 1
    /\ fetch_errors' = fetch_errors + 1
    /\ ckpt' = SaveIfResume(batch_num - 1)
    /\ hist' = Fetched
    /\ UNCHANGED <<inputVars, lockVars, now, csv, total_processed, write_queue,
                   stop_writer, processed_keys, resume_state_file,
                   current_batch_num, resume_state, append_mode,
                   next_key_marker, next_version_marker, batch_num,
                   total_items, batchVars, writerVars, raised, exit_status,
                   session, fault_limit, save_failures, interrupts, write_failures, pauses>>

\* a process_batch that marks the next entry without looking it up
BatchMarkUnseen ==
    /\ pc = "batch_loop"
    /\ entries # <<>>
    /\ processed_keys' = processed_keys \cup
           {KeyVersion(Head(entries).Key, Head(entries).VersionId)}
    /\ pc' = "batch_put"
    /\ UNCHANGED <<inputVars, lockVars, now, diskVars, total_processed, error_count,
                   write_queue, stop_writer, resume_state_file,
                   current_batch_num, resume_state, append_mode,
                   next_key_marker, next_version_marker, batch_num,
                   total_items, result, batchVars, writerVars, raised,
                   exit_status, envVars, hist>>

\* lines 450-459, 490-499: the next entry is skipped or marked
BatchMark ==
    /\ pc = "batch_loop"
    /\ entries # <<>>
    /\ LET key_version == KeyVersion(Head(entries).Key, Head(entries).VersionId) IN
       IF key_version \in processed_keys
       THEN /\ entries' = Tail(entries)
            /\ UNCHANGED <<processed_keys, pc>>
       ELSE /\ processed_keys' = processed_keys \cup {key_version}
            /\ pc' = "batch_put"
            /\ UNCHANGED entries
    /\ UNCHANGED <<inputVars, lockVars, now, diskVars, total_processed, error_count,
                   write_queue, stop_writer, resume_state_file,
                   current_batch_num, resume_state, append_mode,
                   next_key_marker, next_version_marker, batch_num,
                   total_items, result, batch_count, writerVars, raised,
                   exit_status, envVars, hist>>

\* lines 466-487, 506-527: the row is built and put on the queue; put blocks
\* while the queue is full
BatchPut ==
    /\ pc = "batch_put"
    /\ Len(write_queue) < QueueMaxSize
    /\ LET row == Row(Head(entries), cfg.url_encode) IN
       /\ write_queue' = Append(write_queue, row)
       /\ hist' = [hist EXCEPT !.pushed = Append(@, row)]
    /\ batch_count' = batch_count + 1
    /\ entries' = Tail(entries)
    /\ pc' = "batch_loop"
    /\ UNCHANGED <<inputVars, lockVars, now, diskVars, total_processed, error_count,
                   stop_writer, processed_keys, resume_state_file,
                   current_batch_num, resume_state, append_mode,
                   next_key_marker, next_version_marker, batch_num,
                   total_items, result, writerVars, raised, exit_status,
                   envVars>>

\* lines 529-539, 750: process_batch returns a result without an error
BatchReturn ==
    /\ pc = "batch_loop"
    /\ entries = <<>>
    /\ LET response == list_object_versions(listing,
                           Params(next_key_marker, next_version_marker)) IN
       result' = [batch_count         |-> batch_count,
                  is_truncated        |-> response.IsTruncated,
                  next_key_marker     |-> response.NextKeyMarker,
                  next_version_marker |-> response.NextVersionIdMarker,
                  error               |-> "None",
                  retry_after_refresh |-> FALSE]
    /\ pc' = "post_total"
    /\ UNCHANGED <<inputVars, lockVars, now, diskVars, selfVars, resume_state, append_mode,
                   next_key_marker, next_version_marker, batch_num, total_items,
                   batchVars, writerVars, raised, exit_status, envVars, hist>>

\* what one attempt of _refresh_credentials_and_retry meets
RefreshOutcomes == {"ok", "expired", "ClientError", "Exception"}

\* lines 287-354: the attempts from `attempt` on
RECURSIVE RefreshFrom(_, _)
RefreshFrom(outcomes, attempt) ==
    IF attempt > max_retries THEN FALSE
    ELSE CASE outcomes[attempt] = "ok"          -> TRUE
           [] outcomes[attempt] = "ClientError" -> FALSE
           [] OTHER -> RefreshFrom(outcomes, attempt + 1)

_refresh_credentials_and_retry(outcomes) == RefreshFrom(outcomes, 1)

\* what _refresh_credentials_and_retry can return
RefreshReturns ==
    {_refresh_credentials_and_retry(outcomes) :
        outcomes \in [1..max_retries -> RefreshOutcomes]}

\* a retry that takes its markers from the failed result, where the code
\* leaves the markers as they are
RefreshRestarting ==
    /\ pc = "refresh"
    /\ \E sso \in BOOLEAN, refreshed \in RefreshReturns :
          LET sso_refreshed == Truthy(cfg.profile_name) /\ sso IN
          IF sso_refreshed \/ refreshed
          THEN /\ pc' = "loop_top"
               /\ next_key_marker' = result.next_key_marker
               /\ next_version_marker' = result.next_version_marker
               /\ hist' = [hist EXCEPT !.retry_of = hist.fetched]
          ELSE /\ pc' = "fatal"
               /\ UNCHANGED <<hist, next_key_marker, next_version_marker>>
    /\ UNCHANGED <<inputVars, lockVars, now, diskVars, selfVars, resume_state, append_mode,
                   batch_num, total_items, result, batchVars, writerVars,
                   raised, exit_status, envVars>>

\* lines 758-780: the credentials are refreshed; the batch is retried
\* (continue) or the run goes on to exit
Refresh ==
    /\ pc = "refresh"
    /\ \E sso \in BOOLEAN, refreshed \in RefreshReturns :
          LET sso_refreshed == Truthy(cfg.profile_name) /\ sso IN
          IF sso_refreshed \/ refreshed
          THEN /\ pc' = "loop_top"
               /\ hist' = [hist EXCEPT !.retry_of = hist.fetched]
          ELSE /\ pc' = "fatal"
               /\ UNCHANGED hist
    /\ UNCHANGED <<inputVars, lockVars, now, diskVars, selfVars, resume_state, append_mode,
                   next_key_marker, next_version_marker, batch_num, total_items,
                   result, batchVars, writerVars, raised, exit_status, envVars>>

\* lines 782-786: the state is saved and sys.exit(1) is raised
Fatal ==
    /\ pc = "fatal"
    /\ ckpt' = SaveIfResume(batch_num - 1)
    /\ raised' = "SystemExit"
    /\ pc' = "finally_put"
    /\ UNCHANGED <<inputVars, lockVars, now, csv, selfVars, resume_state, append_mode,
                   next_key_marker, next_version_marker, batch_num, total_items,
                   result, batchVars, writerVars, exit_status, envVars, hist>>

\* lines 788-794: the page's rows are counted, and every
\* save_state_interval batches the state is saved
PostTotal ==
    /\ pc = "post_total"
    /\ total_items' = total_items + result.batch_count
    /\ ckpt' = IF /\ cfg.enable_resume
                  /\ resume_state_file # None
                  /\ batch_num % save_state_interval = 0
               THEN _save_resume_state(cfg.bucket_name, cfg.prefix,
                                       result.next_key_marker,
                                       result.next_version_marker, batch_num,
                                       total_items')
               ELSE ckpt
    /\ pc' = "post_trim"
    /\ UNCHANGED <<inputVars, lockVars, now, csv, selfVars, resume_state, append_mode,
                   next_key_marker, next_version_marker, batch_num, result,
                   batchVars, writerVars, raised, exit_status, envVars, hist>>

\* set(list(self.processed_keys)[-10000:]): the kept keys are the last ones
\* of the set's iteration order, which is any order
Trimmed(keys) ==
    {kept \in SUBSET keys : Cardinality(kept) = TrimLowWatermark}

\* lines 796-801
PostTrim ==
    /\ pc = "post_trim"
    /\ IF cfg.enable_resume /\ Cardinality(processed_keys) >= TrimHighWatermark
       THEN processed_keys' \in Trimmed(processed_keys)
       ELSE UNCHANGED processed_keys
    /\ pc' = "post_advance"
    /\ UNCHANGED <<inputVars, lockVars, now, diskVars, total_processed, error_count,
                   write_queue, stop_writer, resume_state_file,
                   current_batch_num, resume_state, append_mode,
                   next_key_marker, next_version_marker, batch_num,
                   total_items, result, batchVars, writerVars, raised,
                   exit_status, envVars, hist>>

\* a step that cleans the checkpoint up after every page, where the code
\* does so after the last one
PostAdvanceCleaning ==
    /\ pc = "post_advance"
    /\ ckpt' = IF cfg.enable_resume THEN _cleanup_resume_state ELSE ckpt
    /\ IF result.is_truncated
       THEN /\ next_key_marker' = result.next_key_marker
            /\ next_version_marker' = result.next_version_marker
            /\ hist' = [hist EXCEPT !.page = @ + 1]
            /\ pc' = "loop_top"
       ELSE /\ pc' = "finally_put"
            /\ UNCHANGED <<next_key_marker, next_version_marker, hist>>
    /\ UNCHANGED <<inputVars, lockVars, now, csv, selfVars, resume_state, append_mode,
                   batch_num, total_items, result, batchVars, writerVars,
                   raised, exit_status, envVars>>

\* lines 809-818: the markers advance, or the run is complete and the
\* checkpoint is cleaned up
PostAdvance ==
    /\ pc = "post_advance"
    /\ IF result.is_truncated
       THEN /\ next_key_marker' = result.next_key_marker
            /\ next_version_marker' = result.next_version_marker
            /\ hist' = [hist EXCEPT !.page = @ + 1]
            /\ pc' = "loop_top"
            /\ UNCHANGED ckpt
       ELSE /\ ckpt' = IF cfg.enable_resume THEN _cleanup_resume_state ELSE ckpt
            /\ pc' = "finally_put"
            /\ UNCHANGED <<next_key_marker, next_version_marker, hist>>
    /\ UNCHANGED <<inputVars, lockVars, now, csv, selfVars, resume_state, append_mode,
                   batch_num, total_items, result, batchVars, writerVars,
                   raised, exit_status, envVars>>

\* where the main thread is inside the try block of lines 714-818
InTry == pc \in {"loop_top", "fetch", "batch_loop", "batch_put", "refresh",
                 "fatal", "post_total", "post_trim", "post_advance"}

\* a KeyboardInterrupt is raised in the main thread
Interrupt ==
    /\ InTry
    /\ MayFail
    /\ interrupts' = interrupts + 1
    /\ pc' = "except_kbd"
    /\ UNCHANGED <<inputVars, lockVars, now, diskVars, selfVars, resume_state, append_mode,
                   next_key_marker, next_version_marker, batch_num, total_items,
                   result, batchVars, writerVars, raised, exit_status, session,
                   fault_limit, save_failures, fetch_errors, write_failures, pauses, hist>>

\* lines 819-826
ExceptKeyboardInterrupt ==
    /\ pc = "except_kbd"
    /\ ckpt' = SaveIfResume(batch_num - 1)
    /\ raised' = "KeyboardInterrupt"
    /\ pc' = "finally_put"
    /\ UNCHANGED <<inputVars, lockVars, now, csv, selfVars, resume_state, append_mode,
                   next_key_marker, next_version_marker, batch_num, total_items,
                   result, batchVars, writerVars, exit_status, envVars, hist>>

\* the item that tells the writer to stop (the source puts None)
Sentinel == [key_name |-> None, version_id |-> None, delete_marker |-> FALSE]

\* line 829: put blocks while the queue is full
FinallyPut ==
    /\ pc = "finally_put"
    /\ Len(write_queue) < QueueMaxSize
    /\ write_queue' = Append(write_queue, Sentinel)
    /\ pc' = "finally_join"
    /\ UNCHANGED <<inputVars, lockVars, now, diskVars, total_processed, error_count,
                   stop_writer, processed_keys, resume_state_file,
                   current_batch_num, resume_state, append_mode,
                   next_key_marker, next_version_marker, batch_num,
                   total_items, result, batchVars, writerVars, raised,
                   exit_status, envVars, hist>>

\* a finally block that does not wait for the writer thread
FinallyNoJoin ==
    /\ pc = "finally_join"
    /\ pc' = "finally_save"
    /\ UNCHANGED <<inputVars, lockVars, now, diskVars, selfVars, resume_state, append_mode,
                   next_key_marker, next_version_marker, batch_num, total_items,
                   result, batchVars, writerVars, raised, exit_status, envVars,
                   hist>>

\* lines 830-831: join returns when the writer thread has ended
FinallyJoin ==
    /\ pc = "finally_join"
    /\ wpc = "ended"
    /\ pc' = "finally_save"
    /\ UNCHANGED <<inputVars, lockVars, now, diskVars, selfVars, resume_state, append_mode,
                   next_key_marker, next_version_marker, batch_num, total_items,
                   result, batchVars, writerVars, raised, exit_status, envVars,
                   hist>>

\* lines 833-866, 999-1001: the final save; then export_versions returns, or
\* the exception it is leaving with ends the process
FinallySave ==
    /\ pc = "finally_save"
    /\ ckpt' = IF error_count > 0 THEN SaveIfResume(current_batch_num) ELSE ckpt
    /\ pc' = CASE raised = "SystemExit"        -> "failed"
               [] raised = "KeyboardInterrupt" -> "interrupted"
               [] OTHER                        -> "done"
    /\ exit_status' = IF raised = "None" THEN 0 ELSE 1
    /\ UNCHANGED <<inputVars, lockVars, now, csv, selfVars, resume_state, append_mode,
                   next_key_marker, next_version_marker, batch_num, total_items,
                   result, batchVars, writerVars, raised, envVars, hist>>

(***************************************************************************)
(* csv_writer_worker, the writer thread.                                   *)
(***************************************************************************)
\* list.sort(key=lambda x: x['key_name']), a stable sort: the place of a row
\* is one more than the number of rows that sort before it
Rank(buffer, i) ==
    1 + Cardinality({j \in DOMAIN buffer :
                        \/ StrLess(buffer[j].key_name, buffer[i].key_name)
                        \/ buffer[j].key_name = buffer[i].key_name /\ j < i})

\* the buffer left in the order the rows arrived in
Unsorted(buffer) == buffer

SortByKeyName(buffer) ==
    [k \in DOMAIN buffer |->
        buffer[CHOOSE i \in DOMAIN buffer : Rank(buffer, i) = k]]

\* the output file after `rows` were written to it at time `clock`
Written(file, rows, clock) ==
    IF rows = <<>> THEN file
    ELSE [exists |-> TRUE, rows |-> file.rows \o rows, mtime |-> clock]

\* a worker that opens the file with 'w' and writes the header also when
\* the run resumes
WriterOpenTruncating ==
    /\ wpc = "open"
    /\ csv' = [exists |-> TRUE,
               rows   |-> IF cfg.write_headers THEN <<Header>> ELSE <<>>,
               mtime  |-> now]
    /\ hist' = [hist EXCEPT !.base = Len(csv'.rows)]
    /\ current_batch' = <<>>
    /\ wpc' = "collect"
    /\ UNCHANGED <<inputVars, lockVars, now, ckpt, selfVars, localVars, batchVars,
                   sort_buffer, raised, exit_status, envVars>>

\* lines 358-376: the file is opened ('a' when resuming, else 'w') and the
\* header is written
WriterOpen ==
    /\ wpc = "open"
    /\ csv' = IF append_mode
              THEN IF csv.exists THEN csv
                   ELSE [exists |-> TRUE, rows |-> <<>>, mtime |-> now]
              ELSE [exists |-> TRUE,
                    rows   |-> IF cfg.write_headers THEN <<Header>> ELSE <<>>,
                    mtime  |-> now]
    /\ hist' = [hist EXCEPT !.base = Len(csv'.rows)]
    /\ current_batch' = <<>>
    /\ wpc' = "collect"
    /\ UNCHANGED <<inputVars, lockVars, now, ckpt, selfVars, localVars, batchVars,
                   sort_buffer, raised, exit_status, envVars>>

\* lines 384-391: an item is taken from the queue
WriterGet ==
    /\ wpc = "collect"
    /\ Len(current_batch) < CurrentBatchLimit
    /\ write_queue # <<>>
    /\ write_queue' = Tail(write_queue)
    /\ IF Head(write_queue) = Sentinel
       THEN /\ stop_writer' = TRUE
            /\ wpc' = "extend"
            /\ UNCHANGED current_batch
       ELSE /\ current_batch' = Append(current_batch, Head(write_queue))
            /\ UNCHANGED <<stop_writer, wpc>>
    /\ UNCHANGED <<inputVars, lockVars, now, diskVars, total_processed, error_count,
                   processed_keys, resume_state_file, current_batch_num,
                   localVars, batchVars, sort_buffer, raised, exit_status,
                   envVars, hist>>

\* lines 384-393: collecting ends, because the batch is full, the two seconds
\* are over (after one get at least) or get timed out on an empty queue
WriterBreak ==
    /\ wpc = "collect"
    /\ write_queue = <<>> \/ current_batch # <<>>
    /\ wpc' = "extend"
    /\ UNCHANGED <<inputVars, lockVars, now, diskVars, selfVars, localVars, batchVars,
                   current_batch, sort_buffer, raised, exit_status, envVars,
                   hist>>

\* a test that writes the buffer at the threshold only
ShouldWriteAtThreshold(buffer) == Len(buffer) >= SortBufferThreshold

\* line 398
ShouldWrite(buffer) ==
    Len(buffer) >= SortBufferThreshold \/ (stop_writer /\ buffer # <<>>)

\* a loop test that never lets the worker leave
WriterLoopForever == "collect"

\* line 378: the loop goes on, or the worker leaves it
WriterLoopTest == IF ~stop_writer \/ write_queue # <<>> THEN "collect" ELSE "final"

\* lines 395-410: the batch joins the sort buffer, which is sorted, written
\* and flushed when it is large enough or the writer is stopping
WriterFlush ==
    /\ wpc = "extend"
    /\ LET buffer == sort_buffer \o current_batch IN
       IF ShouldWrite(buffer)
       THEN /\ csv' = Written(csv, SortByKeyName(buffer), now)
            /\ total_processed' = total_processed + Len(buffer)
            /\ sort_buffer' = <<>>
       ELSE /\ sort_buffer' = buffer
            /\ UNCHANGED <<csv, total_processed>>
    /\ current_batch' = <<>>
    /\ wpc' = WriterLoopTest
    /\ UNCHANGED <<inputVars, lockVars, now, ckpt, error_count, write_queue, stop_writer,
                   processed_keys, resume_state_file, current_batch_num,
                   localVars, batchVars, raised, exit_status, envVars, hist>>

\* lines 399-404, 412-415: writerow or flush raises after `done` rows reached
\* the file; the exception is counted and the loop goes on
WriterFlushFails ==
    /\ wpc = "extend"
    /\ MayFail
    /\ LET buffer == sort_buffer \o current_batch IN
       /\ ShouldWrite(buffer)
       /\ \E done \in 0..Len(buffer) :
             csv' = Written(csv, SubSeq(SortByKeyName(buffer), 1, done), now)
       /\ sort_buffer' = SortByKeyName(buffer)
    /\ error_count' = error_count + 1
    /\ write_failures' = write_failures + 1
    /\ hist' = [hist EXCEPT !.write_failed = TRUE]
    /\ current_batch' = <<>>
    /\ wpc' = WriterLoopTest
    /\ UNCHANGED <<inputVars, lockVars, now, ckpt, total_processed, write_queue,
                   stop_writer, processed_keys, resume_state_file,
                   current_batch_num, localVars, batchVars, raised,
                   exit_status, session, fault_limit, save_failures, fetch_errors, interrupts,
                   pauses>>

\* lines 417-423: what is left in the sort buffer is written, and the worker
\* ends
WriterFinal ==
    /\ wpc = "final"
    /\ csv' = Written(csv, SortByKeyName(sort_buffer), now)
    /\ total_processed' = total_processed + Len(sort_buffer)
    /\ wpc' = "ended"
    /\ UNCHANGED <<inputVars, lockVars, now, ckpt, error_count, write_queue, stop_writer,
                   processed_keys, resume_state_file, current_batch_num,
                   localVars, batchVars, current_batch, sort_buffer, raised,
                   exit_status, envVars, hist>>

\* lines 417-427: the last write raises; sys.exit(1) ends the writer thread
\* (and only it)
WriterFinalFails ==
    /\ wpc = "final"
    /\ sort_buffer # <<>>
    /\ MayFail
    /\ \E done \in 0..(Len(sort_buffer) - 1) :
          csv' = Written(csv, SubSeq(SortByKeyName(sort_buffer), 1, done), now)
    /\ write_failures' = write_failures + 1
    /\ hist' = [hist EXCEPT !.write_failed = TRUE]
    /\ wpc' = "ended"
    /\ UNCHANGED <<inputVars, lockVars, now, ckpt, selfVars, localVars, batchVars,
                   current_batch, sort_buffer, raised, exit_status, session,
                   fault_limit, save_failures, fetch_errors, interrupts, pauses>>

(***************************************************************************)
(* The environment: time passes, the command is run again.                 *)
(***************************************************************************)
\* a pause longer than the mtime tolerance, while list_object_versions is awaited
PauseSeconds == MtimeTolerance + 1

Pause ==
    /\ pc = "fetch"
    /\ MayFail
    /\ pauses' = pauses + 1
    /\ now' = now + PauseSeconds
    /\ UNCHANGED <<inputVars, lockVars, diskVars, selfVars, localVars, batchVars,
                   writerVars, raised, exit_status, session, fault_limit, save_failures,
                   fetch_errors, interrupts, write_failures, hist>>

Exited == pc \in {"done", "failed", "interrupted", "cancelled", "invalid"}

\* the same command is run again, at once or more than 24 hours later
Restart ==
    /\ Exited
    /\ session < MaxSessions
    /\ session' = session + 1
    /\ \/ now' = now + 1 /\ UNCHANGED pauses
       \/ MayFail /\ now' = now + MaxCheckpointAge + 1 /\ pauses' = pauses + 1
    /\ hist' = HistInit(Append(hist.ends, pc))
    /\ total_processed' = 0
    /\ error_count' = 0
    /\ write_queue' = <<>>
    /\ stop_writer' = FALSE
    /\ processed_keys' = {}
    /\ resume_state_file' = None
    /\ current_batch_num' = 0
    /\ pc' = "validate"
    /\ resume_state' = EmptyState
    /\ append_mode' = FALSE
    /\ next_key_marker' = None
    /\ next_version_marker' = None
    /\ batch_num' = 0
    /\ total_items' = 0
    /\ result' = NoResult
    /\ entries' = <<>>
    /\ batch_count' = 0
    /\ wpc' = "unstarted"
    /\ current_batch' = <<>>
    /\ sort_buffer' = <<>>
    /\ raised' = "None"
    /\ exit_status' = Running
    /\ lock' = "free"
    /\ main_loaded' = 0
    /\ writer_counting' = NotCounting
    /\ UNCHANGED <<inputVars, diskVars, fault_limit, save_failures, fetch_errors, interrupts,
                   write_failures>>

OrchestratorStep ==
    \/ Validate \/ ResumeFile \/ ResumeNoOutput \/ ResumeAccept \/ ResumeConflict
    \/ StartWriter \/ LoopTop \/ FetchPage \/ FetchError \/ BatchMark
    \/ BatchPut \/ BatchReturn \/ Refresh \/ Fatal \/ PostTotal \/ PostTrim
    \/ PostAdvance \/ ExceptKeyboardInterrupt
    \/ FinallyPut \/ FinallyJoin \/ FinallySave

WriterStep ==
    \/ WriterOpen \/ WriterGet \/ WriterBreak \/ WriterFlush \/ WriterFlushFails
    \/ WriterFinal \/ WriterFinalFails

Next == OrchestratorStep \/ WriterStep \/ Interrupt \/ Pause \/ Restart

Spec == Init /\ [][Next]_vars

(***************************************************************************)
(* One run of the process that is not interrupted and whose writes do not  *)
(* fail: only list_object_versions fails, up to MaxRetryFaults times.  Both *)
(* threads are scheduled fairly.                                           *)
(***************************************************************************)
InitRetry ==
    /\ cfg \in Configs
    /\ listing \in Listings
    /\ now = StartTime
    /\ csv = NoCsv
    /\ ckpt = <<>>
    /\ ProcessInit
    /\ session = 1
    /\ fault_limit = MaxRetryFaults
    /\ fetch_errors = 0
    /\ interrupts = 0
    /\ write_failures = 0
    /\ save_failures = 0
    /\ pauses = 0
    /\ hist = HistInit(<<>>)

OrchestratorRun ==
    \/ Validate \/ ResumeFile \/ ResumeNoOutput \/ StartWriter \/ LoopTop
    \/ FetchPage \/ FetchError \/ BatchMark \/ BatchPut \/ BatchReturn
    \/ Refresh \/ Fatal \/ PostTotal \/ PostTrim \/ PostAdvance \/ FinallyPut
    \/ FinallyJoin \/ FinallySave

WriterRun ==
    \/ WriterOpen \/ WriterGet \/ WriterBreak \/ WriterFlush \/ WriterFinal

NextRetry == OrchestratorRun \/ WriterRun

SpecRetry ==
    /\ InitRetry
    /\ [][NextRetry]_vars
    /\ WF_vars(OrchestratorRun)
    /\ WF_vars(WriterRun)

(***************************************************************************)
(* _save_resume_state and _load_resume_state on their own: a state is      *)
(* saved; time passes, the output file is touched or removed, the job is   *)
(* asked for with another bucket or prefix; the state is loaded.           *)
(***************************************************************************)
\* the largest total_items saved
MaxItems == 2

OtherBucketName == <<"b", "k", "2">>

CkptConfigs ==
    [bucket_name   : {BucketName, OtherBucketName},
     prefix        : {None, <<>>, <<"p">>},
     output_file   : {OutputFile},
     enable_resume : {TRUE},
     write_headers : {TRUE},
     url_encode    : {TRUE},
     profile_name  : {<<"p">>}]

\* (next_key_marker, next_version_marker) pairs
CkptCursors == { <<None, None>>, <<<<"c">>, <<"1">>>>, <<<<"d", " ", "a">>, <<>>>> }

\* the output file at the save: none, or one written before StartTime
CkptFiles == {NoCsv, [exists |-> TRUE, rows |-> <<Header>>, mtime |-> StartTime - 5]}

\* what the properties read: the job and the output file at the save
Saved == [bucket_name |-> cfg.bucket_name, prefix |-> cfg.prefix, csv |-> csv,
          now |-> now]

InitCkpt ==
    /\ cfg \in CkptConfigs
    /\ listing = ListingA
    /\ now = StartTime
    /\ csv \in CkptFiles
    /\ ckpt = <<>>
    /\ total_processed = 0
    /\ error_count = 0
    /\ write_queue = <<>>
    /\ stop_writer = FALSE
    /\ processed_keys \in {{}, {KeyVersion(<<"c">>, <<"1">>)}}
    /\ resume_state_file = CheckpointPath
    /\ lock = "free"
    /\ main_loaded = 0
    /\ writer_counting = NotCounting
    /\ current_batch_num = 0
    /\ pc = "ckpt_save"
    /\ resume_state = EmptyState
    /\ append_mode = FALSE
    /\ \E cursor \in CkptCursors :
          next_key_marker = cursor[1] /\ next_version_marker = cursor[2]
    /\ batch_num \in {0, 1}
    /\ total_items \in 0..MaxItems
    /\ result = NoResult
    /\ entries = <<>>
    /\ batch_count = 0
    /\ wpc = "unstarted"
    /\ current_batch = <<>>
    /\ sort_buffer = <<>>
    /\ raised = "None"
    /\ exit_status = Running
    /\ session = 1
    /\ fault_limit = 0
    /\ fetch_errors = 0
    /\ interrupts = 0
    /\ write_failures = 0
    /\ save_failures = 0
    /\ pauses = 0
    /\ hist = Saved

\* _save_resume_state(bucket_name, prefix, next_key_marker,
\* next_version_marker, batch_num, total_items, output_file)
CkptSave ==
    /\ pc = "ckpt_save"
    /\ ckpt' = _save_resume_state(cfg.bucket_name, cfg.prefix, next_key_marker,
                                  next_version_marker, batch_num, total_items)
    /\ hist' = Saved
    /\ pc' = "ckpt_saved"
    /\ UNCHANGED <<inputVars, lockVars, now, csv, selfVars, resume_state, append_mode,
                   next_key_marker, next_version_marker, batch_num, total_items,
                   result, batchVars, writerVars, raised, exit_status, envVars>>

\* time passes: up to the largest age a checkpoint is loaded at, or beyond
CkptClock ==
    /\ pc = "ckpt_saved"
    /\ now = hist.now
    /\ \E age \in {1, MaxCheckpointAge, MaxCheckpointAge + 1} : now' = now + age
    /\ UNCHANGED <<inputVars, lockVars, diskVars, selfVars, localVars, batchVars,
                   writerVars, raised, exit_status, envVars, hist>>

\* the output file is written or restored by someone, or removed
CkptTouch ==
    /\ pc = "ckpt_saved"
    /\ csv = hist.csv
    /\ csv.exists
    /\ \/ \E d \in {MtimeTolerance, MtimeTolerance + 1}, sign \in {-1, 1} :
             csv' = [csv EXCEPT !.mtime = @ + sign * d]
       \/ csv' = NoCsv
    /\ UNCHANGED <<inputVars, lockVars, now, ckpt, selfVars, localVars, batchVars,
                   writerVars, raised, exit_status, envVars, hist>>

\* the load is asked for with another bucket or prefix
CkptRequest ==
    /\ pc = "ckpt_saved"
    /\ cfg.bucket_name = hist.bucket_name
    /\ cfg.prefix = hist.prefix
    /\ cfg' \in CkptConfigs \ {cfg}
    /\ UNCHANGED <<listing, lockVars, now, diskVars, selfVars, localVars, batchVars,
                   writerVars, raised, exit_status, envVars, hist>>

\* resume_state = self._load_resume_state(bucket_name, prefix, output_file)
CkptLoad ==
    /\ pc = "ckpt_saved"
    /\ LET loaded == _load_resume_state(cfg.bucket_name, cfg.prefix) IN
       /\ resume_state' = loaded.ret
       /\ processed_keys' = loaded.keys
    /\ pc' = "ckpt_loaded"
    /\ UNCHANGED <<inputVars, lockVars, now, diskVars, total_processed, error_count,
                   write_queue, stop_writer, resume_state_file,
                   current_batch_num, append_mode, next_key_marker,
                   next_version_marker, batch_num, total_items, result,
                   batchVars, writerVars, raised, exit_status, envVars, hist>>

NextCkpt == CkptSave \/ CkptClock \/ CkptTouch \/ CkptRequest \/ CkptLoad

SpecCkpt == InitCkpt /\ [][NextCkpt]_vars

(***************************************************************************)
(* One start of the process on files that are already there: the job is    *)
(* asked for with a well-formed or a malformed bucket name and output      *)
(* path, the output file is missing or holds the first page, and the       *)
(* checkpoint file is missing, loadable, too old, or written for an output *)
(* file with another modification time.                                    *)
(***************************************************************************)
\* faults of the environment in one behaviour of SpecStart
MaxStartFaults == 1

\* names _validate_bucket_name refuses: too short, an upper-case letter, a
\* leading dot, a trailing dot, two dots in a row
BadBucketNames ==
    { <<"b", "k">>, <<"B", "k", "t">>, <<".", "b", "k">>, <<"b", "k", ".">>,
      <<"b", ".", ".", "t">> }

\* the path ../out, which resolves to /out
OutsideFile == << <<".", ".">>, <<"o", "u", "t">> >>

\* the path ../w2/out, which resolves to /w2/out
SiblingFile == << <<".", ".">>, <<"w", "2">>, <<"o", "u", "t">> >>

StartConfigs ==
    [bucket_name   : {BucketName} \cup BadBucketNames,
     prefix        : {None},
     output_file   : {OutputFile, OutsideFile, SiblingFile},
     enable_resume : BOOLEAN,
     write_headers : BOOLEAN,
     url_encode    : {TRUE},
     profile_name  : {<<"p">>}]

\* the output file an earlier run left after the first page of ListingA
FirstPageFile(write_headers) ==
    [exists |-> TRUE,
     rows   |-> (IF write_headers THEN <<Header>> ELSE <<>>)
                \o SortByKeyName(<< Row(ResponseEntries(ListingA[1])[1], TRUE),
                                    Row(ResponseEntries(ListingA[1])[2], TRUE) >>),
     mtime  |-> StartTime - 5]

\* the checkpoint an earlier run left after the first page of ListingA,
\* saved at `clock` when the output file was `file`
FirstPageCheckpoint(clock, file) ==
    << StateText(BucketName, None, ListingA[1].NextKeyMarker,
                 ListingA[1].NextVersionIdMarker, 1, 2, clock, file,
                 {KeyVersion(<<"c">>, <<"1">>), KeyVersion(<<"b">>, <<"2">>)}) >>

StartCheckpoints(write_headers) ==
    { <<>>,
      FirstPageCheckpoint(StartTime - 5, FirstPageFile(write_headers)),
      FirstPageCheckpoint(StartTime - 5 - MaxCheckpointAge,
                          FirstPageFile(write_headers)),
      FirstPageCheckpoint(StartTime - 5,
          [FirstPageFile(write_headers) EXCEPT !.mtime = @ - MtimeTolerance - 1]) }

InitStart ==
    /\ cfg \in StartConfigs
    /\ listing = ListingA
    /\ now = StartTime
    /\ csv \in {NoCsv, FirstPageFile(cfg.write_headers)}
    /\ ckpt \in StartCheckpoints(cfg.write_headers)
    /\ ProcessInit
    /\ session = 1
    /\ fault_limit = MaxStartFaults
    /\ fetch_errors = 0
    /\ interrupts = 0
    /\ write_failures = 0
    /\ save_failures = 0
    /\ pauses = 0
    /\ hist = HistInit(<<>>)

NextStart ==
    \/ OrchestratorStep
    \/ WriterOpen \/ WriterGet \/ WriterBreak \/ WriterFlush \/ WriterFlushFails
    \/ WriterFinal
    \/ Interrupt

SpecStart == InitStart /\ [][NextStart]_vars

(***************************************************************************)
(* One run over a page that holds more rows than the queue and the         *)
(* writer's buffers take together, in which a write of the writer thread   *)
(* may fail.                                                               *)
(***************************************************************************)
\* failing writes in one behaviour of SpecPipe
MaxPipeFaults == 1

ListingC ==
    << [Versions            |-> << Entry(<<"d">>, <<"2">>), Entry(<<"d">>, <<"1">>),
                                   Entry(<<"c">>, <<"2">>), Entry(<<"c">>, <<"1">>),
                                   Entry(<<"b">>, <<"2">>), Entry(<<"b">>, <<"1">>),
                                   Entry(<<"a">>, <<"2">>), Entry(<<"a">>, <<"1">>) >>,
        DeleteMarkers       |-> << >>,
        IsTruncated         |-> FALSE,
        NextKeyMarker       |-> None,
        NextVersionIdMarker |-> None] >>

InitPipe ==
    /\ cfg \in Configs
    /\ listing = ListingC
    /\ now = StartTime
    /\ csv = NoCsv
    /\ ckpt = <<>>
    /\ ProcessInit
    /\ session = 1
    /\ fault_limit = MaxPipeFaults
    /\ fetch_errors = 0
    /\ interrupts = 0
    /\ write_failures = 0
    /\ save_failures = 0
    /\ pauses = 0
    /\ hist = HistInit(<<>>)

NextPipe ==
    \/ Validate \/ ResumeFile \/ ResumeNoOutput \/ StartWriter \/ LoopTop
    \/ FetchPage \/ BatchMark \/ BatchPut \/ BatchReturn \/ PostTotal
    \/ PostTrim \/ PostAdvance \/ FinallyPut \/ FinallyJoin \/ FinallySave
    \/ WriterOpen \/ WriterGet \/ WriterBreak \/ WriterFlush \/ WriterFlushFails
    \/ WriterFinal

SpecPipe == InitPipe /\ [][NextPipe]_vars

(***************************************************************************)
(* One run in which the updates of the counters are taken apart: `with     *)
(* self.lock: self.error_count += 1` and `with self.lock:                  *)
(* self.total_processed += len(sort_buffer)` are the acquire of the lock,  *)
(* the read of the counter, the write of the sum and the release, one step *)
(* each, so that the two threads interleave between them.  Elsewhere the   *)
(* model makes these updates in one step of FetchError, WriterFlush,       *)
(* WriterFlushFails and WriterFinal.  Fetches and the writes in the        *)
(* writer's loop may fail.                                                 *)
(***************************************************************************)
\* failing fetches and failing writes in one behaviour of SpecLock, taken
\* together
MaxLockFaults == 2

InitLock ==
    /\ cfg \in Configs
    /\ listing = ListingA
    /\ now = StartTime
    /\ csv = NoCsv
    /\ ckpt = <<>>
    /\ ProcessInit
    /\ session = 1
    /\ fault_limit = MaxLockFaults
    /\ fetch_errors = 0
    /\ interrupts = 0
    /\ write_failures = 0
    /\ save_failures = 0
    /\ pauses = 0
    /\ hist = HistInit(<<>>)

\* lines 446, 541-558, 571: list_object_versions raises and process_batch
\* catches the exception
FetchRaises ==
    /\ pc = "fetch"
    /\ MayFail
    /\ \E error_result \in ErrorResults : result' = error_result
    /\ fetch_errors' = fetch_errors + 1
    /\ hist' = Fetched
    /\ pc' = "error_acquire"
    /\ UNCHANGED <<inputVars, lockVars, now, diskVars, selfVars, resume_state,
                   append_mode, next_key_marker, next_version_marker,
                   batch_num, total_items, batchVars, writerVars, raised,
                   exit_status, session, fault_limit, save_failures, interrupts,
                   write_failures, pauses>>

\* an acquire that does not wait for the lock to be free
ErrorAcquireHeld ==
    /\ pc = "error_acquire"
    /\ lock' = "main"
    /\ pc' = "error_load"
    /\ UNCHANGED <<inputVars, main_loaded, writer_counting, now, diskVars,
                   selfVars, resume_state, append_mode, next_key_marker,
                   next_version_marker, batch_num, total_items, result,
                   batchVars, writerVars, raised, exit_status, envVars, hist>>

\* lines 559, 572: with self.lock, entered when the lock is free
ErrorAcquire ==
    /\ pc = "error_acquire"
    /\ lock = "free"
    /\ lock' = "main"
    /\ pc' = "error_load"
    /\ UNCHANGED <<inputVars, main_loaded, writer_counting, now, diskVars,
                   selfVars, resume_state, append_mode, next_key_marker,
                   next_version_marker, batch_num, total_items, result,
                   batchVars, writerVars, raised, exit_status, envVars, hist>>

\* lines 560, 573: self.error_count is read
ErrorLoad ==
    /\ pc = "error_load"
    /\ main_loaded' = error_count
    /\ pc' = "error_store"
    /\ UNCHANGED <<inputVars, lock, writer_counting, now, diskVars, selfVars,
                   resume_state, append_mode, next_key_marker,
                   next_version_marker, batch_num, total_items, result,
                   batchVars, writerVars, raised, exit_status, envVars, hist>>

\* lines 560, 573: the sum is written to self.error_count
ErrorStore ==
    /\ pc = "error_store"
    /\ error_count' = main_loaded + 1
    /\ main_loaded' = 0
    /\ pc' = "error_release"
    /\ UNCHANGED <<inputVars, lock, writer_counting, now, diskVars,
                   total_processed, write_queue, stop_writer, processed_keys,
                   resume_state_file, current_batch_num, resume_state,
                   append_mode, next_key_marker, next_version_marker,
                   batch_num, total_items, result, batchVars, writerVars,
                   raised, exit_status, envVars, hist>>

\* lines 559-560, 572-573: the with block is left
ErrorRelease ==
    /\ pc = "error_release"
    /\ lock' = "free"
    /\ pc' = "error_return"
    /\ UNCHANGED <<inputVars, main_loaded, writer_counting, now, diskVars,
                   selfVars, resume_state, append_mode, next_key_marker,
                   next_version_marker, batch_num, total_items, result,
                   batchVars, writerVars, raised, exit_status, envVars, hist>>

\* lines 562-581, 750-759: process_batch returns its result, export_versions
\* saves the state
ErrorReturn ==
    /\ pc = "error_return"
    /\ ckpt' = SaveIfResume(batch_num - 1)
    /\ pc' = IF result.retry_after_refresh THEN "refresh" ELSE "fatal"
    /\ UNCHANGED <<inputVars, lockVars, now, csv, selfVars, resume_state,
                   append_mode, next_key_marker, next_version_marker,
                   batch_num, total_items, result, batchVars, writerVars,
                   raised, exit_status, envVars, hist>>

\* lines 395-405: the batch joins the sort buffer, which is sorted and
\* written when it is large enough or the writer is stopping
WriterWrites ==
    /\ wpc = "extend"
    /\ LET buffer == sort_buffer \o current_batch IN
       IF ShouldWrite(buffer)
       THEN /\ csv' = Written(csv, SortByKeyName(buffer), now)
            /\ sort_buffer' = SortByKeyName(buffer)
            /\ writer_counting' = [counter |-> "total_processed",
                                   amount  |-> Len(buffer),
                                   loaded  |-> 0,
                                   then    |-> "clear"]
            /\ wpc' = "count_acquire"
       ELSE /\ sort_buffer' = buffer
            /\ wpc' = WriterLoopTest
            /\ UNCHANGED <<csv, writer_counting>>
    /\ current_batch' = <<>>
    /\ UNCHANGED <<inputVars, lock, main_loaded, now, ckpt, selfVars, localVars,
                   batchVars, raised, exit_status, envVars, hist>>

\* lines 399-404, 412-413: writerow or flush raises after `done` rows reached
\* the file
WriterWriteRaises ==
    /\ wpc = "extend"
    /\ MayFail
    /\ LET buffer == sort_buffer \o current_batch IN
       /\ ShouldWrite(buffer)
       /\ \E done \in 0..Len(buffer) :
             csv' = Written(csv, SubSeq(SortByKeyName(buffer), 1, done), now)
       /\ sort_buffer' = SortByKeyName(buffer)
    /\ writer_counting' = [counter |-> "error_count", amount |-> 1,
                           loaded |-> 0, then |-> "loop"]
    /\ write_failures' = write_failures + 1
    /\ hist' = [hist EXCEPT !.write_failed = TRUE]
    /\ current_batch' = <<>>
    /\ wpc' = "count_acquire"
    /\ UNCHANGED <<inputVars, lock, main_loaded, now, ckpt, selfVars, localVars,
                   batchVars, raised, exit_status, session, fault_limit, save_failures,
                   fetch_errors, interrupts, pauses>>

\* lines 417-421: what is left in the sort buffer is written
WriterFinalWrites ==
    /\ wpc = "final"
    /\ IF sort_buffer = <<>>
       THEN /\ wpc' = "ended"
            /\ UNCHANGED <<csv, writer_counting>>
       ELSE /\ csv' = Written(csv, SortByKeyName(sort_buffer), now)
            /\ writer_counting' = [counter |-> "total_processed",
                                   amount  |-> Len(sort_buffer),
                                   loaded  |-> 0,
                                   then    |-> "ended"]
            /\ wpc' = "count_acquire"
    /\ UNCHANGED <<inputVars, lock, main_loaded, now, ckpt, selfVars, localVars,
                   batchVars, current_batch, sort_buffer, raised, exit_status,
                   envVars, hist>>

\* lines 407, 414, 422: with self.lock, entered when the lock is free
WriterAcquire ==
    /\ wpc = "count_acquire"
    /\ lock = "free"
    /\ lock' = "writer"
    /\ wpc' = "count_load"
    /\ UNCHANGED <<inputVars, main_loaded, writer_counting, now, diskVars,
                   selfVars, localVars, batchVars, current_batch, sort_buffer,
                   raised, exit_status, envVars, hist>>

\* lines 408, 415, 423: the counter is read
WriterLoad ==
    /\ wpc = "count_load"
    /\ writer_counting' =
          [writer_counting EXCEPT !.loaded =
              IF writer_counting.counter = "error_count" THEN error_count
              ELSE total_processed]
    /\ wpc' = "count_store"
    /\ UNCHANGED <<inputVars, lock, main_loaded, now, diskVars, selfVars,
                   localVars, batchVars, current_batch, sort_buffer, raised,
                   exit_status, envVars, hist>>

\* lines 408, 415, 423: the sum is written to the counter
WriterStore ==
    /\ wpc = "count_store"
    /\ IF writer_counting.counter = "error_count"
       THEN /\ error_count' = writer_counting.loaded + writer_counting.amount
            /\ UNCHANGED total_processed
       ELSE /\ total_processed' = writer_counting.loaded + writer_counting.amount
            /\ UNCHANGED error_count
    /\ wpc' = "count_release"
    /\ UNCHANGED <<inputVars, lockVars, now, diskVars, write_queue, stop_writer,
                   processed_keys, resume_state_file, current_batch_num,
                   localVars, batchVars, current_batch, sort_buffer, raised,
                   exit_status, envVars, hist>>

\* lines 407-410, 414-415, 422-423: the with block is left; after a buffer
\* written in the loop the sort buffer is emptied, and the loop is tested
WriterRelease ==
    /\ wpc = "count_release"
    /\ lock' = "free"
    /\ sort_buffer' = IF writer_counting.then = "clear" THEN <<>> ELSE sort_buffer
    /\ wpc' = IF writer_counting.then = "ended" THEN "ended" ELSE WriterLoopTest
    /\ writer_counting' = NotCounting
    /\ UNCHANGED <<inputVars, main_loaded, now, diskVars, selfVars, localVars,
                   batchVars, current_batch, raised, exit_status, envVars, hist>>

MainThread ==
    \/ Validate \/ ResumeFile \/ ResumeNoOutput \/ StartWriter \/ LoopTop
    \/ FetchPage \/ FetchRaises \/ ErrorAcquire \/ ErrorLoad \/ ErrorStore
    \/ ErrorRelease \/ ErrorReturn \/ BatchMark \/ BatchPut \/ BatchReturn
    \/ Refresh \/ Fatal \/ PostTotal \/ PostTrim \/ PostAdvance \/ FinallyPut
    \/ FinallyJoin \/ FinallySave

WriterThread ==
    \/ WriterOpen \/ WriterGet \/ WriterBreak \/ WriterWrites \/ WriterWriteRaises
    \/ WriterFinalWrites \/ WriterAcquire \/ WriterLoad \/ WriterStore
    \/ WriterRelease

NextLock == MainThread \/ WriterThread

SpecLock == InitLock /\ [][NextLock]_vars

(***************************************************************************)
(* One run with resume enabled in which a write of the checkpoint file may *)
(* fail: open, json.dump or os.chmod raises inside _save_resume_state,     *)
(* which catches every Exception (lines 197-206).  Fetches may fail too.   *)
(* Both threads are scheduled fairly.                                      *)
(***************************************************************************)
\* failing checkpoint writes and failing fetches in one behaviour of
\* SpecSave, taken together
MaxSaveFaults == 2

\* the checkpoint file after a write that raised: open raised and the file
\* is as it was, json.dump raised and the file holds a part of the text, or
\* os.chmod raised and the file holds the text
FailedSave(saved) == {ckpt, <<PartialText>>, saved}

InitSave ==
    /\ cfg \in {c \in Configs : c.enable_resume}
    /\ listing = ListingA
    /\ now = StartTime
    /\ csv = NoCsv
    /\ ckpt = <<>>
    /\ ProcessInit
    /\ session = 1
    /\ fault_limit = MaxSaveFaults
    /\ fetch_errors = 0
    /\ interrupts = 0
    /\ write_failures = 0
    /\ save_failures = 0
    /\ pauses = 0
    /\ hist = HistInit(<<>>)

\* a periodic save whose exception leaves _save_resume_state and
\* export_versions
PostTotalSaveRaises ==
    /\ pc = "post_total"
    /\ cfg.enable_resume
    /\ resume_state_file # None
    /\ batch_num % save_state_interval = 0
    /\ MayFail
    /\ total_items' = total_items + result.batch_count
    /\ ckpt' \in FailedSave(_save_resume_state(cfg.bucket_name, cfg.prefix,
                                result.next_key_marker,
                                result.next_version_marker, batch_num,
                                total_items'))
    /\ save_failures' = save_failures + 1
    /\ raised' = "SystemExit"
    /\ pc' = "finally_put"
    /\ UNCHANGED <<inputVars, lockVars, now, csv, selfVars, resume_state,
                   append_mode, next_key_marker, next_version_marker,
                   batch_num, result, batchVars, writerVars, exit_status,
                   session, fault_limit, fetch_errors, interrupts,
                   write_failures, pauses, hist>>

\* lines 788-794, 197-206: the page's rows are counted and the periodic save
\* is due; the write raises, _save_resume_state prints a warning and returns
PostTotalSaveFails ==
    /\ pc = "post_total"
    /\ cfg.enable_resume
    /\ resume_state_file # None
    /\ batch_num % save_state_interval = 0
    /\ MayFail
    /\ total_items' = total_items + result.batch_count
    /\ ckpt' \in FailedSave(_save_resume_state(cfg.bucket_name, cfg.prefix,
                                result.next_key_marker,
                                result.next_version_marker, batch_num,
                                total_items'))
    /\ save_failures' = save_failures + 1
    /\ pc' = "post_trim"
    /\ UNCHANGED <<inputVars, lockVars, now, csv, selfVars, resume_state,
                   append_mode, next_key_marker, next_version_marker,
                   batch_num, result, batchVars, writerVars, raised,
                   exit_status, session, fault_limit, fetch_errors, interrupts,
                   write_failures, pauses, hist>>

\* lines 782-786, 197-206: the save before sys.exit(1) raises inside
\* _save_resume_state, which returns; sys.exit(1) is raised as after a save
\* that worked
FatalSaveFails ==
    /\ pc = "fatal"
    /\ cfg.enable_resume
    /\ resume_state_file # None
    /\ MayFail
    /\ ckpt' \in FailedSave(SaveIfResume(batch_num - 1))
    /\ save_failures' = save_failures + 1
    /\ raised' = "SystemExit"
    /\ pc' = "finally_put"
    /\ UNCHANGED <<inputVars, lockVars, now, csv, selfVars, resume_state,
                   append_mode, next_key_marker, next_version_marker,
                   batch_num, total_items, result, batchVars, writerVars,
                   exit_status, session, fault_limit, fetch_errors, interrupts,
                   write_failures, pauses, hist>>

MainSave == OrchestratorRun \/ PostTotalSaveFails \/ FatalSaveFails

NextSave == MainSave \/ WriterRun

SpecSave ==
    /\ InitSave
    /\ [][NextSave]_vars
    /\ WF_vars(MainSave)
    /\ WF_vars(WriterRun)

(***************************************************************************)
(* One run in which the writer thread may fail before its loop: makedirs,  *)
(* open or writeheader raises, the outer handler of csv_writer_worker      *)
(* (lines 425-427) calls sys.exit(1) and the thread ends, while the main   *)
(* thread goes on.  Both threads are scheduled fairly.                     *)
(***************************************************************************)
\* failing opens and failing fetches in one behaviour of SpecOpen, taken
\* together
MaxOpenFaults == 1

InitOpen ==
    /\ cfg \in Configs
    /\ listing \in Listings \cup {ListingC}
    /\ now = StartTime
    /\ csv = NoCsv
    /\ ckpt = <<>>
    /\ ProcessInit
    /\ session = 1
    /\ fault_limit = MaxOpenFaults
    /\ fetch_errors = 0
    /\ interrupts = 0
    /\ write_failures = 0
    /\ save_failures = 0
    /\ pauses = 0
    /\ hist = HistInit(<<>>)

\* lines 358-374, 425-427: makedirs or open raises and the file is as it
\* was, or writeheader raises and the file is open (created or truncated by
\* mode 'w'); the thread ends
WriterOpenFails ==
    /\ wpc = "open"
    /\ MayFail
    /\ \/ csv' = csv
       \/ /\ ~append_mode
          /\ cfg.write_headers
          /\ csv' = [exists |-> TRUE, rows |-> <<>>, mtime |-> now]
    /\ write_failures' = write_failures + 1
    /\ hist' = [hist EXCEPT !.write_failed = TRUE, !.base = Len(csv'.rows)]
    /\ wpc' = "ended"
    /\ UNCHANGED <<inputVars, lockVars, now, ckpt, selfVars, localVars, batchVars,
                   current_batch, sort_buffer, raised, exit_status, session,
                   fault_limit, save_failures, fetch_errors, interrupts, pauses>>

WriterOpenRun == WriterRun \/ WriterOpenFails

NextOpen == OrchestratorRun \/ WriterOpenRun

SpecOpen ==
    /\ InitOpen
    /\ [][NextOpen]_vars
    /\ WF_vars(OrchestratorRun)
    /\ WF_vars(WriterOpenRun)

(***************************************************************************)
(* One run, with no fault, over a bucket whose keys and version ids hold   *)
(* the character the dedup identity is joined with.                        *)
(***************************************************************************)
\* key 'a-b' with version 'c', and key 'a' with version 'b-c'
ListingD ==
    << [Versions            |-> << Entry(<<"a", "-", "b">>, <<"c">>),
                                   Entry(<<"a">>, <<"b", "-", "c">>) >>,
        DeleteMarkers       |-> << >>,
        IsTruncated         |-> FALSE,
        NextKeyMarker       |-> None,
        NextVersionIdMarker |-> None] >>

InitIdent ==
    /\ cfg \in Configs
    /\ listing \in {ListingB, ListingD}
    /\ now = StartTime
    /\ csv = NoCsv
    /\ ckpt = <<>>
    /\ ProcessInit
    /\ session = 1
    /\ fault_limit = 0
    /\ fetch_errors = 0
    /\ interrupts = 0
    /\ write_failures = 0
    /\ save_failures = 0
    /\ pauses = 0
    /\ hist = HistInit(<<>>)

NextIdent ==
    \/ Validate \/ ResumeFile \/ ResumeNoOutput \/ StartWriter \/ LoopTop
    \/ FetchPage \/ BatchMark \/ BatchPut \/ BatchReturn \/ PostTotal
    \/ PostTrim \/ PostAdvance \/ FinallyPut \/ FinallyJoin \/ FinallySave
    \/ WriterRun

SpecIdent == InitIdent /\ [][NextIdent]_vars

(***************************************************************************)
(* One run in which only list_object_versions fails, as in SpecRetry, and  *)
(* in which the exception it raises may have an empty message: str(e) is   *)
(* '' (MemoryError(), TimeoutError(), any exception raised without         *)
(* arguments).                                                             *)
(***************************************************************************)
\* lines 571-581: the result process_batch returns for an exception whose
\* str() is ''
NoMessageResult == [ErrorResult("Exception") EXCEPT !.error = ""]

\* lines 446, 571-581, 750, 788: list_object_versions raises an exception
\* with an empty message; process_batch counts the error and returns its
\* result, whose 'error' is '' and so not true at line 750: export_versions
\* goes on at line 788 as after a page without an error
FetchErrorNoMessage ==
    /\ pc = "fetch"
    /\ MayFail
    /\ result' = NoMessageResult
    /\ error_count' = error_count + 1
    /\ fetch_errors' = fetch_errors + 1
    /\ hist' = Fetched
    /\ pc' = "post_total"
    /\ UNCHANGED <<inputVars, lockVars, now, diskVars, total_processed,
                   write_queue, stop_writer, processed_keys, resume_state_file,
                   current_batch_num, resume_state, append_mode,
                   next_key_marker, next_version_marker, batch_num,
                   total_items, batchVars, writerVars, raised, exit_status,
                   session, fault_limit, save_failures, interrupts,
                   write_failures, pauses>>

NextFetch == NextRetry \/ FetchErrorNoMessage

SpecFetch == InitRetry /\ [][NextFetch]_vars

(***************************************************************************)
(* What the properties below read.                                         *)
(***************************************************************************)
\* the data rows of the output file: its lines after the header
OutputRows ==
    IF csv.rows # <<>> /\ csv.rows[1] = Header THEN Tail(csv.rows) ELSE csv.rows

\* the rows the writer of this process appended to the output file
AppendedRows == SubSeq(csv.rows, hist.base + 1, Len(csv.rows))

Count(seq, x) == Cardinality({i \in DOMAIN seq : seq[i] = x})

SameBag(s, t) ==
    /\ Len(s) = Len(t)
    /\ \A i \in DOMAIN s : Count(s, s[i]) = Count(t, s[i])

\* the rows of the page a cursor fetches
PageRows(cursor) ==
    LET page == ResponseEntries(list_object_versions(listing,
                                    Params(cursor[1], cursor[2])))
    IN  {Row(page[i], cfg.url_encode) : i \in DOMAIN page}

\* the rows of the whole listing
ListedRows ==
    UNION {{Row(ResponseEntries(listing[n])[i], cfg.url_encode) :
               i \in DOMAIN ResponseEntries(listing[n])} : n \in DOMAIN listing}

\* the cursor the checkpoint file holds
StoredCursor ==
    <<json_load(ckpt[1]).next_key_marker, json_load(ckpt[1]).next_version_marker>>

\* the process has ended and all processes before it were interrupted; no
\* fetch and no write failed, and no long pause made a checkpoint unusable
OnlyInterrupted ==
    /\ fetch_errors = 0
    /\ write_failures = 0
    /\ pauses = 0
    /\ \A i \in DOMAIN hist.ends : hist.ends[i] = "interrupted"

\* the close signal was taken by the writer thread, which has ended
PipelineClosed == stop_writer /\ write_queue = <<>> /\ wpc = "ended"

\* the writer thread appended every row put on the queue
Drained == ~hist.write_failed => SameBag(AppendedRows, hist.pushed)

(***************************************************************************)
(* C1.  Resume is idempotent: when a run that was interrupted (any number  *)
(* of times, at any point) and started again with the same parameters      *)
(* completes, the output file holds every row of the listing exactly once, *)
(* as after one uninterrupted run.                                         *)
(***************************************************************************)
C1_ResumeIdempotent ==
    (pc = "done" /\ OnlyInterrupted) =>
        /\ \A row \in ListedRows : Count(OutputRows, row) = 1
        /\ Len(OutputRows) = Cardinality(ListedRows)

(***************************************************************************)
(* C2.  When export_versions returns after a complete run, there is no     *)
(* checkpoint file, also when a fetch error was recovered on the way.      *)
(***************************************************************************)
C2_NoCheckpointAfterSuccess == pc = "done" => ckpt = <<>>

(***************************************************************************)
(* C3.  After a fetch that failed with a credentials error and a           *)
(* successful refresh, the next fetch is made with the markers of the      *)
(* failed fetch; and when the run (not a resumed one, its writes not       *)
(* failing) completes, every row of a page fetched again this way is in    *)
(* the output file exactly once.                                           *)
(***************************************************************************)
C3_RetrySameCursorOnce ==
    /\ hist.retry_of # <<>> => hist.retry_of = <<Cursor>>
    /\ (pc = "done" /\ hist.ends = <<>> /\ ~hist.write_failed) =>
          \A cursor \in hist.retried :
             \A row \in PageRows(cursor) : Count(OutputRows, row) = 1

C3_RetriedPageWritten ==
    /\ pc = "done"
    /\ hist.ends = <<>>
    /\ ~hist.write_failed
    /\ <<<<"c">>, <<"1">>>> \in hist.retried
    /\ Count(OutputRows, Row([Key |-> <<"d">>, VersionId |-> <<"1">>,
                              delete_marker |-> FALSE], TRUE)) = 1

(***************************************************************************)
(* C4.  The fetches made for one page are bounded: however often the fetch *)
(* of a page fails with a credentials error and the refresh succeeds, no   *)
(* more than max_retries fetches are made with the same markers.           *)
(***************************************************************************)
C4_BoundedAttempts == hist.attempts <= max_retries

(***************************************************************************)
(* C5.  A run over a finite listing whose last page is not truncated, with *)
(* both threads scheduled, ends: the loop is left, the close signal is     *)
(* taken by the writer thread, the writer thread ends and is joined, and   *)
(* export_versions returns; it exits instead only on a fetch error.        *)
(***************************************************************************)
C5_Terminates ==
    /\ <>(PipelineClosed /\ pc \in {"done", "failed"})
    /\ [](pc = "failed" => fetch_errors > 0)

C5_Returned ==
    /\ pc = "done"
    /\ PipelineClosed
    /\ exit_status = 0
    /\ Len(listing) = 3
    /\ hist.page = 3

(***************************************************************************)
(* C6.  A failed write of the writer thread is fatal: a process in which a *)
(* write failed never returns from export_versions with exit status 0.     *)
(***************************************************************************)
C6_WriteFailureIsFatal == hist.write_failed => ~(pc = "done" /\ exit_status = 0)

C8_InterruptCheckpoint ==
    pc = "interrupted" =>
        /\ cfg.enable_resume =>
              /\ ckpt # <<>>
              /\ PageOfCursor(listing, StoredCursor[1], StoredCursor[2]) = hist.page
        /\ PipelineClosed
        /\ Drained
        /\ exit_status = 1

C8_InterruptedInSecondPage ==
    /\ pc = "interrupted"
    /\ cfg.enable_resume
    /\ hist.page = 2
    /\ StoredCursor = <<<<"c">>, <<"1">>>>
    /\ Len(hist.pushed) = 3
    /\ ~hist.write_failed

(***************************************************************************)
(* C9.  Checkpoint round trip: a state saved by _save_resume_state and     *)
(* loaded by _load_resume_state for the same bucket and prefix, with the   *)
(* output file as it was at the save and no more than 24 hours after the   *)
(* save, has the saved next_key_marker, next_version_marker and            *)
(* total_items.                                                            *)
(***************************************************************************)
SameJobSameFile ==
    /\ pc = "ckpt_loaded"
    /\ cfg.bucket_name = hist.bucket_name
    /\ cfg.prefix = hist.prefix
    /\ csv = hist.csv

RoundTrip ==
    /\ resume_state.kind = "state"
    /\ resume_state.next_key_marker = next_key_marker
    /\ resume_state.next_version_marker = next_version_marker
    /\ resume_state.total_items = total_items

C9_RoundTripWithinADay ==
    (SameJobSameFile /\ now - hist.now <= MaxCheckpointAge) => RoundTrip

\* the round trip at any time after the save
C9_RoundTripAnyTime == SameJobSameFile => RoundTrip

C9_LoadedAfterADay ==
    /\ SameJobSameFile
    /\ now - hist.now = MaxCheckpointAge
    /\ RoundTrip
    /\ next_key_marker = <<"d", " ", "a">>
    /\ next_version_marker = <<>>
    /\ total_items = MaxItems

(***************************************************************************)
(* C10.  _load_resume_state returns an error when the stored bucket is not *)
(* the one asked for, when the stored prefix is not the one asked for,     *)
(* when the checkpoint is more than 24 hours old, and when the output      *)
(* file's modification time is more than 10 seconds away from the one the  *)
(* checkpoint recorded.                                                    *)
(***************************************************************************)
C10_LoadRejects ==
    (/\ pc = "ckpt_loaded"
     /\ \/ cfg.bucket_name # hist.bucket_name
        \/ cfg.prefix # hist.prefix
        \/ now - hist.now > MaxCheckpointAge
        \/ /\ hist.csv.exists
           /\ csv.exists
           /\ \/ csv.mtime > hist.csv.mtime + MtimeTolerance
              \/ csv.mtime < hist.csv.mtime - MtimeTolerance)
    => resume_state.kind = "error"

C10_RejectedForOlderFile ==
    /\ pc = "ckpt_loaded"
    /\ cfg.bucket_name = hist.bucket_name
    /\ cfg.prefix = hist.prefix
    /\ now - hist.now <= MaxCheckpointAge
    /\ csv.exists
    /\ csv.mtime = hist.csv.mtime - (MtimeTolerance + 1)
    /\ resume_state.kind = "error"

(***************************************************************************)
(* C11.  A resume conflict is never silently resolved.  When resume is     *)
(* enabled, the output file exists and the checkpoint does not load, the   *)
(* user is asked, and that step changes neither file; the run goes on to   *)
(* start the writer thread only on an affirmative answer, and on any other *)
(* answer it ends there, with no page fetched and the writer thread not    *)
(* started.  Up to the start of the writer thread the output file is not   *)
(* changed, and up to the answer the checkpoint file is not changed.       *)
(***************************************************************************)
LoadFails == _load_resume_state(cfg.bucket_name, cfg.prefix).ret.kind = "error"

C11_ConflictNeverSilent ==
    [][/\ (pc = "resume_load" /\ csv.exists /\ LoadFails) =>
             /\ hist'.conflict \in Responses
             /\ csv' = csv
             /\ ckpt' = ckpt
             /\ pc' \in {"start_writer", "cancelled"}
             /\ pc' = "start_writer" =>
                   hist'.conflict \in { <<"y">>, <<"Y", "e", "s">> }
             /\ pc' = "cancelled" =>
                   (hist.calls = 0 /\ wpc' = "unstarted" /\ exit_status' = 0)
       /\ (wpc = "unstarted" /\ pc # "start_writer") => wpc' = "unstarted"
       /\ wpc = "unstarted" => csv' = csv
       /\ (pc \in {"validate", "resume_file"} \/ (pc = "resume_load" /\ csv.exists))
             => ckpt' = ckpt
       /\ pc = "cancelled" => UNCHANGED <<csv, ckpt>>]_vars

C11_CancelledWithFilesKept ==
    /\ pc = "cancelled"
    /\ hist.conflict = <<"n">>
    /\ csv = FirstPageFile(cfg.write_headers)
    /\ ckpt = FirstPageCheckpoint(StartTime - 5 - MaxCheckpointAge,
                                  FirstPageFile(cfg.write_headers))
    /\ hist.calls = 0
    /\ wpc = "unstarted"

(***************************************************************************)
(* C12.  With no write failing: the writer thread leaves its loop only     *)
(* after it took the close signal, with the queue empty and nothing left   *)
(* in its buffers (a buffer below the threshold is written when the close  *)
(* signal arrives); when it has ended, the rows it appended to the output  *)
(* file are the rows put on the queue, each as often as it was put; and    *)
(* once it took the close signal it ends.                                  *)
(***************************************************************************)
C12_WriterDrains ==
    /\ [](wpc \in {"final", "ended"} =>
             /\ stop_writer
             /\ write_queue = <<>>
             /\ sort_buffer = <<>>
             /\ current_batch = <<>>)
    /\ [](wpc = "ended" => SameBag(AppendedRows, hist.pushed))
    /\ (stop_writer ~> wpc = "ended")

C12_PartialBufferFlushed ==
    /\ wpc = "ended"
    /\ listing = ListingB
    /\ Len(hist.pushed) = 2
    /\ Len(hist.pushed) < SortBufferThreshold
    /\ SameBag(AppendedRows, hist.pushed)
    /\ write_failures = 0

(***************************************************************************)
(* C13.  No unbounded queuing of rows: the rows put on the queue and not   *)
(* yet written (those on the queue, those collected and those in the sort  *)
(* buffer) are never more than the queue, one collected batch and a sort   *)
(* buffer below its threshold hold; and a row is put on the queue only     *)
(* while the queue is not full.                                            *)
(***************************************************************************)
Backlog ==
    Cardinality({i \in DOMAIN write_queue : write_queue[i] # Sentinel})
        + Len(current_batch) + Len(sort_buffer)

MaxBacklog == QueueMaxSize + CurrentBatchLimit + (SortBufferThreshold - 1)

C13_BoundedBacklog ==
    /\ Len(write_queue) <= QueueMaxSize
    /\ Backlog <= MaxBacklog

(***************************************************************************)
(* C14.  Local sort: the rows one step of the writer thread appends to the *)
(* output file (a buffer written in the loop, the part of it that reached  *)
(* the file when a write failed, or the buffer written after the loop) are *)
(* in non-decreasing order of key_name.                                    *)
(***************************************************************************)
NonDecreasing(rows) ==
    \A i \in 1..(Len(rows) - 1) : ~StrLess(rows[i + 1].key_name, rows[i].key_name)

C14_LocalSort ==
    [][(wpc = "extend" \/ wpc = "final") =>
          (/\ Len(csv'.rows) >= Len(csv.rows)
           /\ NonDecreasing(SubSeq(csv'.rows, Len(csv.rows) + 1, Len(csv'.rows))))
      ]_vars

C14_BufferReordered ==
    /\ Len(AppendedRows) >= SortBufferThreshold
    /\ hist.pushed[1].key_name = <<"d">>
    /\ AppendedRows[1].key_name = <<"c">>
    /\ AppendedRows[2].key_name = <<"d">>

(***************************************************************************)
(* C15.  In a run that does not resume, with no fetch and no write failing *)
(* and no interrupt, over a listing of n pages: every call of              *)
(* list_object_versions is made with the markers the page before returned  *)
(* (the first with none), and when export_versions returns there were      *)
(* exactly n calls, the output file holds every row of the listing exactly *)
(* once and nothing else, and there is no checkpoint file.                 *)
(***************************************************************************)
\* the markers page n returned; no markers before the first page
CursorAfter(L, n) ==
    IF n = 0 THEN <<None, None>>
    ELSE <<L[n].NextKeyMarker, L[n].NextVersionIdMarker>>

ErrorFreeFresh == ~append_mode /\ error_count = 0 /\ ~hist.write_failed

C15_FreshRun ==
    ErrorFreeFresh =>
        /\ hist.calls <= Len(listing)
        /\ hist.calls > 0 => hist.fetched = << CursorAfter(listing, hist.calls - 1) >>
        /\ pc = "done" =>
              /\ hist.calls = Len(listing)
              /\ \A row \in ListedRows : Count(OutputRows, row) = 1
              /\ Len(OutputRows) = Cardinality(ListedRows)
              /\ ckpt = <<>>

C15_ThreePagesFourRows ==
    /\ ErrorFreeFresh
    /\ pc = "done"
    /\ cfg.enable_resume
    /\ listing = ListingA
    /\ hist.calls = 3
    /\ Len(OutputRows) = 4
    /\ ckpt = <<>>

(***************************************************************************)
(* C16.  In every checkpoint file, batch_num is the number of pages        *)
(* processed so far and the stored markers are the ones that page          *)
(* returned (none when batch_num is 0): a run started again from the       *)
(* checkpoint fetches page batch_num + 1.                                  *)
(***************************************************************************)
C16_CheckpointBatchNum ==
    ckpt # <<>> =>
        /\ json_load(ckpt[1]).batch_num \in 0..Len(listing)
        /\ StoredCursor = CursorAfter(listing, json_load(ckpt[1]).batch_num)

(***************************************************************************)
(* C17.  A checkpoint file is removed by export_versions in two places     *)
(* only: after the page with IsTruncated false was processed without an    *)
(* error, and at the start of a run with resume enabled that finds no      *)
(* output file.                                                            *)
(***************************************************************************)
Removed == ckpt # <<>> /\ ckpt' = <<>>

AtCompletion == pc = "post_advance" /\ ~result.is_truncated /\ result.error = "None"

IsPrefix(s, t) == Len(s) <= Len(t) /\ SubSeq(t, 1, Len(s)) = s

Opened == wpc \notin {"unstarted", "open"}

C19_AppendOrHeader ==
    /\ [](Opened /\ append_mode => Count(AppendedRows, Header) = 0)
    /\ [](Opened /\ ~append_mode /\ cfg.write_headers =>
             (csv.rows[1] = Header /\ Count(csv.rows, Header) = 1))
    /\ [](Opened /\ ~append_mode /\ ~cfg.write_headers =>
             Count(csv.rows, Header) = 0)
    /\ [][append_mode => IsPrefix(csv.rows, csv'.rows)]_vars

C19_ResumedRunAppended ==
    /\ append_mode
    /\ pc = "done"
    /\ cfg.write_headers
    /\ hist.base = Len(FirstPageFile(TRUE).rows)
    /\ IsPrefix(FirstPageFile(TRUE).rows, csv.rows)
    /\ Len(AppendedRows) = 2
    /\ Count(csv.rows, Header) = 1

(***************************************************************************)
(* C20.  A bucket name that _validate_bucket_name refuses (too short, an   *)
(* upper-case letter, a dot at either end, two dots in a row) or an output *)
(* path that _validate_file_path refuses (its absolute form does not start *)
(* with the working directory) makes export_versions raise before any      *)
(* progress: no call of list_object_versions, the writer thread not        *)
(* started, and no step that changes the output file or the checkpoint     *)
(* file, whether they exist or not.                                        *)
(***************************************************************************)
Malformed == cfg.bucket_name \in BadBucketNames \/ cfg.output_file = OutsideFile

MainCounts == pc \in {"error_load", "error_store", "error_release"}

WriterCounts == wpc \in {"count_load", "count_store", "count_release"}

\* the exceptions caught and not yet added to error_count
PendingErrors ==
    (IF pc \in {"error_acquire", "error_load", "error_store"} THEN 1 ELSE 0)
    + (IF /\ wpc \in {"count_acquire", "count_load", "count_store"}
          /\ writer_counting.counter = "error_count"
       THEN 1 ELSE 0)

\* the rows written and not yet added to total_processed
PendingRows ==
    IF /\ wpc \in {"count_acquire", "count_load", "count_store"}
       /\ writer_counting.counter = "total_processed"
    THEN writer_counting.amount ELSE 0

C18_CountersUnderLock ==
    /\ [](MainCounts => lock = "main")
    /\ [](WriterCounts => lock = "writer")
    /\ [](error_count + PendingErrors = fetch_errors + write_failures)
    /\ [](~hist.write_failed => total_processed + PendingRows = Len(AppendedRows))
    /\ [][WriterThread =>
             UNCHANGED <<next_key_marker, next_version_marker, processed_keys,
                         resume_state_file, current_batch_num, pc, resume_state,
                         append_mode, batch_num, total_items, result, entries,
                         batch_count, main_loaded, ckpt, raised, exit_status>>
      ]_vars
    /\ [][MainThread =>
             /\ UNCHANGED <<total_processed, stop_writer, current_batch,
                            sort_buffer, writer_counting, csv>>
             /\ (wpc' # wpc => (pc = "start_writer" /\ wpc' = "open"))
      ]_vars

\* the main thread waits for the lock while the writer thread counts an
\* exception of its own
C18_Contended ==
    /\ pc = "error_acquire"
    /\ WriterCounts
    /\ writer_counting.counter = "error_count"
    /\ lock = "writer"
    /\ fetch_errors = 1
    /\ write_failures = 1

(***************************************************************************)
(* C21.  A failed write of the checkpoint file is not fatal.  The step in  *)
(* which _save_resume_state fails changes no marker, no counter and not    *)
(* the dedup set, raises nothing of its own and leaves the main thread     *)
(* where a save that worked leaves it: after the periodic save the rows of *)
(* the page are counted and the loop goes on, and with a truncated page    *)
(* the next fetch is made, with the markers the page returned.             *)
(***************************************************************************)
SaveFailed == save_failures' = save_failures + 1

C21_SaveFailureNotFatal ==
    /\ [][SaveFailed =>
             /\ UNCHANGED <<next_key_marker, next_version_marker, batch_num,
                            current_batch_num, total_processed, error_count,
                            processed_keys, exit_status, csv>>
             /\ pc = "post_total" =>
                   /\ pc' = "post_trim"
                   /\ raised' = raised
                   /\ total_items' = total_items + result.batch_count
             /\ pc = "fatal" =>
                   /\ pc' = "finally_put"
                   /\ total_items' = total_items]_vars
    /\ ((pc = "post_trim" /\ save_failures > 0 /\ result.is_truncated)
           ~> (pc = "fetch" /\ Cursor = <<result.next_key_marker,
                                          result.next_version_marker>>))

\* the periodic save after the second page failed at open, and the third
\* page was fetched
C21_ThirdPageFetched ==
    /\ save_failures = 1
    /\ fetch_errors = 0
    /\ ckpt = <<>>
    /\ pc = "batch_loop"
    /\ hist.page = 3
    /\ hist.calls = 3
    /\ total_items = 3

(***************************************************************************)
(* C22.  The writer thread does not write a buffer again after a write of  *)
(* it failed: no row is appended to the output file more than once by one  *)
(* process (the rows put on the queue being all different).                *)
(***************************************************************************)
C22_NoRowWrittenTwice ==
    \A i \in DOMAIN AppendedRows : Count(AppendedRows, AppendedRows[i]) = 1

(***************************************************************************)
(* C23.  The checkpoint is never ahead of the output file: in the step     *)
(* that writes a checkpoint file, every row of every page before the page  *)
(* the stored markers fetch is in the output file.                         *)
(***************************************************************************)
\* the rows of the pages before the page a cursor fetches
PrecedingRows(cursor) ==
    UNION {PageRows(CursorAfter(listing, n - 1)) :
              n \in 1..(PageOfCursor(listing, cursor[1], cursor[2]) - 1)}

C23_CheckpointBehindOutput ==
    [][(ckpt' # ckpt /\ ckpt' # <<>>) =>
          \A row \in PrecedingRows(StoredCursor') : Count(OutputRows', row) >= 1
      ]_vars

(***************************************************************************)
(* C24.  When the writer thread has ended before it took the close signal, *)
(* the main thread does not wait forever: a put of a row and the put of    *)
(* the close signal return, and the process ends.                          *)
(***************************************************************************)
C24_MainNeverBlocksForever ==
    (wpc = "ended" /\ ~stop_writer) ~> pc \in {"done", "failed"}

(***************************************************************************)
(* C25.  When a run resumes, every record of the listing whose row is in   *)
(* the output file has, among the identities _check_existing_csv_for_resume *)
(* adds to the dedup set, the identity process_batch computes for it.      *)
(***************************************************************************)
\* the entries of the whole listing
ListedEntries ==
    UNION {{ResponseEntries(listing[n])[i] : i \in DOMAIN ResponseEntries(listing[n])} :
              n \in DOMAIN listing}

C25_ScanIdentity ==
    (pc = "start_writer" /\ append_mode) =>
        \A entry \in ListedEntries :
            Count(csv.rows, Row(entry, cfg.url_encode)) > 0 =>
                KeyVersion(entry.Key, entry.VersionId)
                    \in _check_existing_csv_for_resume(csv)

(***************************************************************************)
(* C26.  The dedup identity is injective: process_batch skips a record     *)
(* only when that record was marked before (in a run that does not resume: *)
(* when its row was put on the queue), never because another record with   *)
(* another key or version id was.                                          *)
(***************************************************************************)
\* process_batch skips the entry it looks at (line 456, line 496)
Skips == pc = "batch_loop" /\ pc' = "batch_loop" /\ entries' # entries

C26_SkipsOnlyMarkedRecord ==
    [][Skips => Count(hist.pushed, Row(Head(entries), cfg.url_encode)) > 0]_vars

(***************************************************************************)
(* C27.  After a fetch that failed with an error that is not a credentials *)
(* error (a ClientError with another code, or any other exception) there   *)
(* is no refresh and no further call of list_object_versions: the run      *)
(* saves the state and leaves through sys.exit(1), and when it has exited  *)
(* the exit status is 1 and the checkpoint file (resume enabled) holds the *)
(* markers of the failed fetch.                                            *)
(***************************************************************************)
\* the last result is an error that is not retried
PermanentError == result.error # "None" /\ ~result.retry_after_refresh

C27_PermanentErrorFails ==
    /\ [](PermanentError =>
             /\ pc \in {"fatal", "finally_put", "finally_join", "finally_save",
                        "failed"}
             /\ pc = "failed" =>
                   /\ exit_status = 1
                   /\ cfg.enable_resume =>
                         (ckpt # <<>> /\ <<StoredCursor>> = hist.fetched))
    /\ [][PermanentError => hist'.calls = hist.calls]_vars

(***************************************************************************)
(* C28.  With resume enabled, the step that ends a page without an error   *)
(* and with a batch number that is a multiple of save_state_interval       *)
(* writes a checkpoint file that holds the markers the page returned, that *)
(* batch number, and for total_items the number of records put on the      *)
(* queue up to and including that page: by this process, and, when it      *)
(* resumed, by the processes before it (no write having failed, these are  *)
(* the rows the output file held when this process started).               *)
(***************************************************************************)
\* the data rows the output file held before the writer of this process
\* opened it
EarlierRows ==
    LET lines == IF Opened THEN hist.base ELSE Len(csv.rows)
    IN  IF csv.rows # <<>> /\ csv.rows[1] = Header THEN lines - 1 ELSE lines

\* the records put on the queue for this job so far
Enqueued == (IF append_mode THEN EarlierRows ELSE 0) + Len(hist.pushed)

PeriodicSaveDue ==
    /\ pc = "post_total"
    /\ pc' = "post_trim"
    /\ cfg.enable_resume
    /\ result.error = "None"
    /\ batch_num % save_state_interval = 0

C28_PeriodicCheckpoint ==
    [][(PeriodicSaveDue /\ write_failures = 0) =>
          /\ ckpt' # <<>>
          /\ StoredCursor' = <<result.next_key_marker, result.next_version_marker>>
          /\ json_load(ckpt'[1]).batch_num = batch_num
          /\ json_load(ckpt'[1]).total_items = Enqueued
      ]_vars

(***************************************************************************)
(* C29.  When the collecting of a batch has ended (the two seconds are     *)
(* over, or get timed out) and the writer thread holds rows, fewer than    *)
(* the threshold, its next step sorts them and appends them to the output  *)
(* file: they do not wait for the threshold or for the close signal.       *)
(***************************************************************************)
\* the writer thread makes the step that follows the collecting
AfterCollecting == wpc = "extend" /\ wpc' # "extend"

C29_CadenceFlush ==
    [][(/\ AfterCollecting
        /\ sort_buffer \o current_batch # <<>>
        /\ Len(sort_buffer \o current_batch) < SortBufferThreshold)
       => (/\ sort_buffer' = <<>>
           /\ Len(csv'.rows) = Len(csv.rows) + Len(sort_buffer \o current_batch))
      ]_vars

(***************************************************************************)
(* C30.  The trim of the dedup set, made when the set has reached the high *)
(* watermark, keeps the low-watermark number of identities marked last:    *)
(* every identity kept was marked after every identity dropped.  (In a run *)
(* that does not resume, the identities are marked in the order their rows *)
(* are put on the queue.)                                                  *)
(***************************************************************************)
\* the place, among the rows put on the queue, of the row of the record
\* with identity key_version
MarkedAt(key_version) ==
    CHOOSE i \in DOMAIN hist.pushed :
        \E entry \in ListedEntries :
            /\ KeyVersion(entry.Key, entry.VersionId) = key_version
            /\ hist.pushed[i] = Row(entry, cfg.url_encode)

Trims == pc = "post_trim" /\ processed_keys' # processed_keys

C30_TrimKeepsMostRecent ==
    [][(Trims /\ ~append_mode) =>
          /\ Cardinality(processed_keys) >= TrimHighWatermark
          /\ processed_keys' \subseteq processed_keys
          /\ Cardinality(processed_keys') = TrimLowWatermark
          /\ \A kept \in processed_keys', dropped \in processed_keys \ processed_keys' :
                MarkedAt(kept) > MarkedAt(dropped)
      ]_vars

(***************************************************************************)
(* C31.  The dedup set is bounded, whether the run may resume or not: when *)
(* a page has been processed and the trim of lines 796-801 is behind, the  *)
(* set holds fewer identities than the high watermark.                     *)
(***************************************************************************)
PageProcessed == pc = "post_advance"

C31_DedupBounded ==
    PageProcessed => Cardinality(processed_keys) < TrimHighWatermark

(***************************************************************************)
(* C32.  Dedup correctness, within one process: the identity of a record   *)
(* is in the dedup set right after the record is marked; the set loses an  *)
(* identity only in a trim; a record whose identity is in the set is not   *)
(* marked again and not put on the queue, and only a record marked just    *)
(* before is put on the queue.  The record may be a version entry or a     *)
(* delete-marker entry, of the page being walked or of a page fetched      *)
(* again.                                                                  *)
(***************************************************************************)
\* the identity of the entry process_batch is looking at
HeadIdentity == KeyVersion(Head(entries).Key, Head(entries).VersionId)

\* the entry is marked
Marks == pc = "batch_loop" /\ pc' = "batch_put"

\* a row is put on the queue
Pushes == Len(hist'.pushed) > Len(hist.pushed)

SameProcess == session' = session

C32_DedupCorrect ==
    [][(SameProcess) =>
          /\ Marks => /\ HeadIdentity \notin processed_keys
                      /\ HeadIdentity \in processed_keys'
          /\ ~Trims => processed_keys \subseteq processed_keys'
          /\ (pc = "batch_loop" /\ entries # <<>> /\ HeadIdentity \in processed_keys)
                => (~Pushes /\ pc' # "batch_put")
          /\ pc' = "batch_put" => pc \in {"batch_loop", "batch_put"}
          /\ Pushes => /\ pc = "batch_put"
                       /\ HeadIdentity \in processed_keys
                       /\ hist'.pushed = Append(hist.pushed,
                                                Row(Head(entries), cfg.url_encode))
      ]_vars

\* a process that resumed has walked the first page again and has skipped
\* its version entry and its delete-marker entry, both marked by the
\* process before it
C32_ResumedPageSkipped ==
    /\ session = 2
    /\ listing = ListingA
    /\ pc = "post_total"
    /\ hist.page = 1
    /\ result.error = "None"
    /\ result.batch_count = 0
    /\ {<<"c", "-", "1">>, <<"b", "-", "2">>} \subseteq processed_keys

(***************************************************************************)
(* C33.  When the process has exited on a KeyboardInterrupt with resume    *)
(* enabled, the checkpoint it leaves was written after the writer thread's *)
(* last append: the csv_mtime stored in it is the modification time of the *)
(* output file as the process leaves it, and _load_resume_state, called by *)
(* the same command run again, does not answer that the file was modified  *)
(* externally.                                                             *)
(***************************************************************************)
ModifiedExternally ==
    ErrorState("CSV file was modified externally since last checkpoint")

C33_InterruptFingerprint ==
    (pc = "interrupted" /\ cfg.enable_resume /\ ckpt # <<>>) =>
        /\ json_load(ckpt[1]).csv_mtime = CsvMtime(csv)
        /\ _load_resume_state(cfg.bucket_name, cfg.prefix).ret # ModifiedExternally

(***************************************************************************)
(* C34.  Item accounting: a step of a process that writes the checkpoint   *)
(* file stores as total_items the number of rows put on the queue for the  *)
(* job so far, by this process and by the processes it resumed from, also  *)
(* when it is the step of the KeyboardInterrupt handler and a page is      *)
(* partly walked; and when export_versions has returned, total_items is    *)
(* that number and (no write having failed) the number of data rows of the *)
(* output file.                                                            *)
(***************************************************************************)
\* the step writes the checkpoint file
Persists == ckpt' # ckpt /\ ckpt' # <<>> /\ ckpt'[1] # PartialText

C34_ItemAccounting ==
    [][(SameProcess /\ write_failures = 0) =>
          /\ Persists => json_load(ckpt'[1]).total_items = Enqueued'
          /\ (pc # "done" /\ pc' = "done") =>
                /\ total_items' = Enqueued'
                /\ total_items' = Len(OutputRows')
      ]_vars

====
